---- MODULE Spec2Model ----
(***************************************************************************)
(* A model of the markdown renderers of src/render/markdown.rs:            *)
(*   - MarkdownRenderable::content / render_markdown, the recursive        *)
(*     conversion of a pulldown_cmark_ast tree into typst content;         *)
(*   - MarkdownRenderable::html, the single pass over the pulldown_cmark   *)
(*     event stream that builds an HTML string.                            *)
(* Text is modelled as a sequence of tokens (one-token strings), so that   *)
(* concatenation, trimming, escaping and line splitting are computed.      *)
(* A call ends in one of three ways: Ok, Err (a RenderError value), or a   *)
(* panic (unreachable!, todo!, expect, unwrap, an index out of bounds).    *)
(***************************************************************************)
EXTENDS Integers, Sequences, FiniteSets, Bags, TLC

\* ast           the tree of the input text (Ast::new_ext)
\* call          which renderer is called on it: "content" or "html"
\* events        html: the event stream of the input text (Parser::new_ext)
\* pos           html: the next event of the stream, from 1
\* errors        html: the diagnostics accumulated so far
\* current_code  html: the highlighter of the code block being read, if any
\* emitted       html: for each event read, the events the closure yielded
\* evaluated     the texts handed to the typst evaluator so far, in order
\* pc            "run" while the call runs, "done" when it has ended
\* result        how the call ended
\* world         content: the world the caller passes (self.world)
\* span_worlds   html: the worlds made for the math spans read so far
\* clock         the process: the UTC date of the system clock
\* history       the process: the calls that have ended before this one, a
\*               bag of records (the call, its input, its result)
\* FONTS         the process: the lazy static of the fonts
\* threads       the process: the calls that run side by side on threads of
\*               their own, as far as they touch the fonts and the syntaxes
\* config        a call of Config::from_str, Config::hash or of a method of
\*               the languages of a Config
\* pdf           a call of Config::render_pdf
VARIABLES ast, call, events, pc, pos, errors, current_code, emitted, evaluated,
          result, world, span_worlds, clock, history, FONTS, threads, config,
          pdf

vars ==
    <<ast, call, events, pc, pos, errors, current_code, emitted, evaluated, result,
      world, span_worlds, clock, history, FONTS, threads, config, pdf>>

\* What no step of a call changes.
outside_call == <<world, clock, history, FONTS, threads, config, pdf>>

(***************************************************************************)
(* Bounds of the model.                                                    *)
(***************************************************************************)
\* The number of top-level blocks of an input document.
MaxBlocks == 2

\* The number of threads that make a call at the same time.
MaxThreads == 2

\* The number of calls of a process that end before its last call.
MaxCalls == 2

\* The last date the clock of a process reaches; it starts at date 1.
MaxDate == 2

(***************************************************************************)
(* The markup tree: pulldown_cmark_ast::Tree, with pulldown_cmark::Tag on  *)
(* the groups.  Every node has the same fields; the ones a variant does    *)
(* not carry are empty.                                                    *)
(*   text      the string of a leaf, the info string of a fenced code      *)
(*             block, the dest_url of a link or image                      *)
(*   num       the level of a heading; 1 for CodeBlockKind::Fenced and 0   *)
(*             for CodeBlockKind::Indented                                 *)
(*   ord       Option<u64> of Tag::List: <<>> is None, <<s>> is Some(s)    *)
(*   align     Vec<Alignment> of Tag::Table                                *)
(***************************************************************************)
Leaf(node, text) ==
    [node |-> node, tag |-> "", text |-> text, num |-> 0, ord |-> <<>>,
     align |-> <<>>, children |-> <<>>]

Group(tag, children) ==
    [node |-> "Group", tag |-> tag, text |-> <<>>, num |-> 0, ord |-> <<>>,
     align |-> <<>>, children |-> children]

Heading(level, children) == [Group("Heading", children) EXCEPT !.num = level]

FencedCodeBlock(info, children) ==
    [Group("CodeBlock", children) EXCEPT !.num = 1, !.text = info]

IndentedCodeBlock(children) == Group("CodeBlock", children)

List(ord, children) == [Group("List", children) EXCEPT !.ord = ord]

Table(align, children) == [Group("Table", children) EXCEPT !.align = align]

Link(dest_url, children) == [Group("Link", children) EXCEPT !.text = dest_url]

Image(dest_url, children) == [Group("Image", children) EXCEPT !.text = dest_url]

(***************************************************************************)
(* typst content.  Every element has the same fields: its element name,    *)
(* its children, and the text / number / alignment it carries.             *)
(***************************************************************************)
Elem(elem, children) ==
    [elem |-> elem, children |-> children, text |-> <<>>, num |-> 0,
     align |-> <<>>]

ElemText(elem, text) == [Elem(elem, <<>>) EXCEPT !.text = text]

\* Content::sequence: no element is the empty sequence, one element is that
\* element itself, more are wrapped in a sequence element.
ContentSequence(vec) ==
    IF Len(vec) = 1 THEN vec[1] ELSE Elem("sequence", vec)

(***************************************************************************)
(* The three ways a call (or the rendering of one node) ends: Ok, Err (a   *)
(* RenderError: UnsupportedHtml, or TypstError with its diagnostics) and a *)
(* panic.  A result also carries two logs of what was done to reach it:    *)
(*   evals     the texts handed to the typst evaluator, in order           *)
(*   visited   the nodes render_tree was called on, in order (the tag of a *)
(*             group, the variant of a leaf)                               *)
(***************************************************************************)
Ok(val) ==
    [status |-> "Ok", val |-> val, error |-> "", diags |-> <<>>,
     evals |-> <<>>, visited |-> <<>>]

Err(error, diags) ==
    [status |-> "Err", val |-> <<>>, error |-> error, diags |-> diags,
     evals |-> <<>>, visited |-> <<>>]

Panic(msg) ==
    [status |-> "Panic", val |-> <<>>, error |-> msg, diags |-> <<>>,
     evals |-> <<>>, visited |-> <<>>]

NoResult ==
    [status |-> "None", val |-> <<>>, error |-> "", diags |-> <<>>,
     evals |-> <<>>, visited |-> <<>>]

\* The result r of a step that ran after the step that ended in `first`.
After(first, r) ==
    [r EXCEPT !.evals = first.evals \o r.evals,
              !.visited = first.visited \o r.visited]

(***************************************************************************)
(* The typst evaluator, as far as the renderers see it: a text either      *)
(* evaluates, or yields the list of all its error diagnostics.  One        *)
(* diagnostic is reported for every "(" token (an unclosed delimiter) and  *)
(* for every "#u" token (an unknown variable), at the token's offset.      *)
(* Three more tokens reach what is around the text:                        *)
(*   "#let"    defines u, for the rest of this evaluation                  *)
(*   "#today"  is the date that World::today gives                         *)
(*   "#read"   is the file "a.txt", read through World::file; a text with  *)
(*             a detached span has no path and may not read                *)
(***************************************************************************)
RECURSIVE diagnostics_from(_, _, _)
diagnostics_from(text, i, detached) ==
    IF i > Len(text) THEN <<>>
    ELSE IF text[i] = "("
         THEN <<[message |-> "unclosed delimiter", offset |-> i]>>
              \o diagnostics_from(text, i + 1, detached)
    ELSE IF text[i] = "#u" /\ \A j \in 1..(i - 1) : text[j] # "#let"
         THEN <<[message |-> "unknown variable", offset |-> i]>>
              \o diagnostics_from(text, i + 1, detached)
    ELSE IF text[i] = "#read" /\ detached
         THEN <<[message |-> "cannot access file system from here", offset |-> i]>>
              \o diagnostics_from(text, i + 1, detached)
    ELSE diagnostics_from(text, i + 1, detached)

\* The diagnostics of typst::compile on a source of its own.
typst_diagnostics(text) == diagnostics_from(text, 1, FALSE)

\* The diagnostics of eval_string(.., Span::detached(), ..).
eval_diagnostics(text) == diagnostics_from(text, 1, TRUE)

(***************************************************************************)
(* TypstWrapperWorld (src/render/typst.rs): the source, the time and the   *)
(* map of the files read so far (here the set of their ids; the library is *)
(* Library::default() in every world).                                     *)
(***************************************************************************)
\* The files under the current directory.
Disk == {"a.txt"}

NoWorld == [source |-> <<>>, time |-> 0, files |-> {}]

\* TypstWrapperWorld::new(source): the time is now_utc(), the map is new.
TypstWrapperWorld_new(source) == [source |-> source, time |-> clock, files |-> {}]

\* World::today
today(w) == w.time

\* A date as a token.
DateStr(d) ==
    CASE d = 1 -> "1 Jan" [] d = 2 -> "2 Jan" [] d = 3 -> "3 Jan" [] OTHER -> "later"

\* get_file: an entry of the map is returned as it is; otherwise the file
\* is read from the disk and kept in the map.  `disk` is what was read.
get_file(w, id) ==
    IF id \in w.files THEN [world |-> w, found |-> TRUE, disk |-> {}]
    ELSE IF id \in Disk
         THEN [world |-> [w EXCEPT !.files = @ \cup {id}], found |-> TRUE,
               disk |-> {id}]
         ELSE [world |-> w, found |-> FALSE, disk |-> {}]

\* The files that World::file is asked for while a text is evaluated.  A
\* path is resolved against the file of the span that names it; a detached
\* span has no file, so the evaluation fails before it asks the world.
files_asked(text, detached) ==
    IF ~detached /\ \E i \in DOMAIN text : text[i] = "#read" THEN {"a.txt"} ELSE {}

\* What a text that has no diagnostics evaluates to in the world w.
evaluated_text(text, w) ==
    [i \in 1..Len(text) |->
        CASE text[i] = "#today" -> DateStr(today(w))
          [] text[i] = "#read" -> "bytes of a.txt"
          [] OTHER -> text[i]]

\* typst::compile(&world): the diagnostics, or the document; the world as
\* the compilation leaves it, and what it read from the disk.
compile(w) ==
    IF typst_diagnostics(w.source) # <<>>
    THEN [diags |-> typst_diagnostics(w.source), doc |-> <<>>, world |-> w,
          disk |-> {}]
    ELSE IF "a.txt" \in files_asked(w.source, FALSE)
         THEN [diags |-> <<>>, doc |-> evaluated_text(w.source, w),
               world |-> get_file(w, "a.txt").world,
               disk |-> get_file(w, "a.txt").disk]
         ELSE [diags |-> <<>>, doc |-> evaluated_text(w.source, w), world |-> w,
               disk |-> {}]

\* The world after eval_string(world.track(), text, Span::detached(), ..).
RECURSIVE world_after_evals(_, _)
world_after_evals(texts, w) ==
    IF texts = <<>> THEN w
    ELSE world_after_evals(Tail(texts),
                           IF "a.txt" \in files_asked(Head(texts), TRUE)
                           THEN get_file(w, "a.txt").world ELSE w)

\* str::trim
RECURSIVE trim_start(_)
trim_start(s) ==
    IF s # <<>> /\ Head(s) \in {" ", "\n"} THEN trim_start(Tail(s)) ELSE s

RECURSIVE trim_end(_)
trim_end(s) ==
    IF s # <<>> /\ s[Len(s)] \in {" ", "\n"}
    THEN trim_end(SubSeq(s, 1, Len(s) - 1)) ELSE s

trim(s) == trim_end(trim_start(s))

\* Value::Content(content): the content a text evaluates to.  It keeps
\* what it was evaluated as: num is the mode (0 EvalMode::Math, 1
\* EvalMode::Markup), align names the scope the evaluation started with.
equation(text, mode, scope) ==
    [Elem("equation", <<>>) EXCEPT !.text = text,
                                   !.num = IF mode = "Math" THEN 0 ELSE 1,
                                   !.align = <<scope>>]

\* An evaluation that is tried a second time when it fails.
eval_string_retried(text, mode, scope) ==
    IF eval_diagnostics(text) = <<>>
    THEN [Ok(equation(evaluated_text(text, world), mode, scope))
            EXCEPT !.evals = <<text>>]
    ELSE [Err("TypstError", eval_diagnostics(text)) EXCEPT !.evals = <<text, text>>]

\* typst::eval::eval_string(self.world.track(), text, Span::detached(),
\* mode, scope) followed by `?` (From<EcoVec<SourceDiagnostic>> for
\* RenderError) and by the match on Value::Content.  The scope is a new one
\* (Scope::new(), a clone of the math scope): no name a text defines is in
\* it.
eval_string(text, mode, scope) ==
    IF eval_diagnostics(text) = <<>>
    THEN [Ok(equation(evaluated_text(text, world), mode, scope))
            EXCEPT !.evals = <<text>>]
    ELSE [Err("TypstError", eval_diagnostics(text)) EXCEPT !.evals = <<text>>]

(***************************************************************************)
(* The content-tree path: TypstMarkdownRenderer.                           *)
(***************************************************************************)
\* Result::map(f) with f building an element around the content.
MapOk(r, elem) ==
    IF r.status = "Ok" THEN [r EXCEPT !.val = Elem(elem, <<r.val>>)] ELSE r

\* .map(|c| c.into_packed().unwrap()): a panic when the content is Ok but is
\* not an element of the expected type.
into_packed_unwrap(r, elem) ==
    IF r.status = "Ok" /\ r.val.elem # elem
    THEN After(r, Panic("called Option::unwrap on a None value"))
    ELSE r

\* map_align
map_align(a) == IF a = "None" THEN "Auto" ELSE a

map_align_all(align) == [i \in 1..Len(align) |-> map_align(align[i])]

\* A renderer that keeps raw HTML as content instead of refusing it.
html_kept_as_content == Ok(ElemText("html", <<>>))

\* Err(RenderError::UnsupportedHtml), of the HtmlBlock, Html and InlineHtml
\* arms.
unsupported_html == Err("UnsupportedHtml", <<>>)

\* A renderer that drops the nodes of disabled features.
feature_dropped == Ok(Elem("sequence", <<>>))

\* unreachable!("Feature is disabled"), of the FootnoteDefinition,
\* MetadataBlock, FootnoteReference and TaskListMarker arms.
feature_disabled ==
    Panic("internal error: entered unreachable code: Feature is disabled")

\* todo!(), of the Image arm.
image_todo == Panic("not yet implemented")

\* A numbering that forgets the start of the list.
item_number_from_one(ord, i) == i + 1

\* .with_number(Some(ord as usize + i))
item_number(ord, i) == ord + i

\* A DisplayMath arm that wraps the text as it stands.
display_math_text_untrimmed(item) == <<"$", " ">> \o item \o <<" ", "$">>

\* let content = spanned.item.trim(); &format!("$ {} $", content)
display_math_text(item) == <<"$", " ">> \o trim(item) \o <<" ", "$">>

RECURSIVE render_tree(_)
RECURSIVE render_ast(_)
RECURSIVE collect(_, _, _, _, _)
RECURSIVE table_rows(_, _, _)

\* The closure of the ordered-list arm: the i-th child (0-based) must be an
\* Item group, and its number is ord + i.
enum_item(ord, i, t) ==
    IF t.node = "Group" /\ t.tag = "Item"
    THEN LET body == render_ast(t.children)
         IN  IF body.status = "Ok"
             THEN [body EXCEPT !.val = [Elem("enum.item", <<body.val>>)
                                          EXCEPT !.num = item_number(ord, i)]]
             ELSE body
    ELSE Panic("internal error: entered unreachable code")

\* The closure of the unordered-list arm.
list_item(t) == into_packed_unwrap(render_tree(t), "list.item")

\* The closure of the table arms: a cell of the header or of a row.
table_cell(t) == into_packed_unwrap(render_tree(t), "table.cell")

\* What the closure `kind` of a .map(..) yields for the i-th element t.
closure(kind, ord, i, t) ==
    CASE kind = "render_tree" -> render_tree(t)
      [] kind = "enum_item"   -> enum_item(ord, i, t)
      [] kind = "list_item"   -> list_item(t)
      [] kind = "table_cell"  -> table_cell(t)

\* A collect that maps the elements that are left before it gives the
\* first result that is not Ok.
collect_step_eager(kind, ord, ts, n, acc, r) ==
    LET rest == collect(kind, ord, ts, n + 1, acc)
    IN  IF r.status = "Ok" THEN After(r, rest)
        ELSE [r EXCEPT !.evals = @ \o rest.evals, !.visited = @ \o rest.visited]

\* What collect does with the result r of the element after n elements:
\* an Ok value is pushed and the iteration goes on, anything else ends the
\* iteration and is the result.
collect_step(kind, ord, ts, n, acc, r) ==
    IF r.status = "Ok"
    THEN After(r, collect(kind, ord, ts, n + 1, Append(acc, r.val)))
    ELSE r

\* iter.map(closure).collect::<RenderResult<Vec<_>>>(): the elements are
\* mapped one by one, from the left; the first one that is not Ok ends the
\* iteration, the ones after it are never mapped.  n elements are done, with
\* the values acc.
collect(kind, ord, ts, n, acc) ==
    IF n = Len(ts) THEN Ok(acc)
    ELSE collect_step(kind, ord, ts, n, acc, closure(kind, ord, n, ts[n + 1]))

\* render_ast
render_ast(ts) ==
    LET r == collect("render_tree", 0, ts, 0, <<>>)
    IN  IF r.status = "Ok" THEN [r EXCEPT !.val = ContentSequence(r.val)] ELSE r

\* render_ast_to_text: only Text leaves, anything else is unreachable!.
RECURSIVE render_ast_to_text(_)
render_ast_to_text(ts) ==
    IF ts = <<>> THEN Ok(<<>>)
    ELSE IF Head(ts).node # "Text"
         THEN Panic("internal error: entered unreachable code: need to impl")
         ELSE LET rest == render_ast_to_text(Tail(ts))
              IN  IF rest.status = "Ok"
                  THEN Ok(Head(ts).text \o rest.val)
                  ELSE rest

\* A loop that pads a row that is shorter than the header with empty cells.
RECURSIVE table_rows_padded(_, _, _)
table_rows_padded(things, children, shape) ==
    IF things = <<>>
    THEN Ok(Elem("figure",
                 <<[Elem("table", children) EXCEPT !.num = shape.cols,
                                                   !.align = shape.align]>>))
    ELSE LET thing == Head(things)
         IN  IF ~(thing.node = "Group" /\ thing.tag = "TableRow")
             THEN Panic("internal error: entered unreachable code")
             ELSE LET row == collect("table_cell", 0, thing.children, 0, <<>>)
                      pad == [i \in 1..(shape.cols - Len(thing.children)) |->
                                Elem("table.cell", <<Elem("sequence", <<>>)>>)]
                  IN  IF row.status = "Ok"
                      THEN After(row, table_rows_padded(Tail(things),
                                                        children \o row.val \o pad,
                                                        shape))
                      ELSE row

\* The `for thing in things` loop of the table arm: every remaining child
\* must be a TableRow group; its cells are appended to `children`.  At the
\* end of the loop the table is built, with one column per header cell.
table_rows(things, children, shape) ==
    IF things = <<>>
    THEN Ok(Elem("figure",
                 <<[Elem("table", children) EXCEPT !.num = shape.cols,
                                                   !.align = shape.align]>>))
    ELSE LET thing == Head(things)
         IN  IF ~(thing.node = "Group" /\ thing.tag = "TableRow")
             THEN Panic("internal error: entered unreachable code")
             ELSE LET row == collect("table_cell", 0, thing.children, 0, <<>>)
                  IN  IF row.status = "Ok"
                      THEN After(row, table_rows(Tail(things),
                                                 children \o row.val, shape))
                      ELSE row

\* The Tag::Table arm: things.remove(0) must be the TableHead group.
render_table(g) ==
    IF g.children = <<>>
    THEN Panic("removal index (is 0) should be < len (is 0)")
    ELSE LET first == Head(g.children)
         IN  IF ~(first.node = "Group" /\ first.tag = "TableHead")
             THEN Panic("internal error: entered unreachable code")
             ELSE LET header == collect("table_cell", 0, first.children, 0, <<>>)
                  IN  IF header.status = "Ok"
                      THEN After(header,
                                 table_rows(Tail(g.children),
                                            <<Elem("table.header", header.val)>>,
                                            [cols  |-> Len(first.children),
                                             align |-> map_align_all(g.align)]))
                      ELSE header

\* TableElem::new(children).with_columns(columns): typst places the cells
\* that follow the header one after the other, row by row, in as many
\* columns as `columns` has; the k-th cell (from 0) lies in row k / cols.
grid_row(k, cols) == k \div cols

\* A CodeBlock arm that never sets the language.
code_block_lang_never(g) == <<>>

\* match code_block_kind: Indented => elem, Fenced(s) => elem if s is
\* empty, else elem.with_lang(Some(s)).
code_block_lang(g) == IF g.num = 1 /\ g.text # <<>> THEN g.text ELSE <<>>

\* The Tag::CodeBlock arm; the language is kept in `align` of the raw
\* element (<<>> when there is none).
render_code_block(g) ==
    LET content == render_ast_to_text(g.children)
    IN  IF content.status = "Ok"
        THEN Ok(Elem("figure",
                     <<[elem |-> "raw", children |-> <<>>, text |-> content.val,
                        num |-> 1,
                        align |-> code_block_lang(g)]>>))
        ELSE content

\* The Tag::Paragraph and Tag::BlockQuote arms: the children between two
\* paragraph breaks.
render_between_parbreaks(g) ==
    LET r == collect("render_tree", 0, g.children, 0, <<>>)
    IN  IF r.status = "Ok"
        THEN [r EXCEPT !.val = ContentSequence(<<Elem("parbreak", <<>>)>> \o r.val
                                               \o <<Elem("parbreak", <<>>)>>)]
        ELSE r

\* The Tag::List arm.
render_list(g) ==
    IF g.ord # <<>>
    THEN LET packed == collect("enum_item", g.ord[1], g.children, 0, <<>>)
         IN  IF packed.status = "Ok"
             THEN [packed EXCEPT !.val = Elem("enum", packed.val)]
             ELSE packed
    ELSE LET packed == collect("list_item", 0, g.children, 0, <<>>)
         IN  IF packed.status = "Ok"
             THEN [packed EXCEPT !.val = Elem("list", packed.val)]
             ELSE packed

\* The Tag::TableHead and Tag::TableRow arms (both build a TableHeader).
render_table_header(g) ==
    LET items == collect("table_cell", 0, g.children, 0, <<>>)
    IN  IF items.status = "Ok"
        THEN [items EXCEPT !.val = Elem("table.header", items.val)]
        ELSE items

\* render_tree, the arms of Tree::Group.
render_group(g) ==
    CASE g.tag = "Paragraph" -> render_between_parbreaks(g)
      [] g.tag = "Heading" ->
            LET r == render_ast(g.children)
            IN  IF r.status = "Ok"
                THEN [r EXCEPT !.val = [Elem("heading", <<r.val>>) EXCEPT !.num = g.num]]
                ELSE r
      [] g.tag = "BlockQuote" ->
            MapOk(MapOk(render_between_parbreaks(g), "align"), "figure")
      [] g.tag = "CodeBlock" -> render_code_block(g)
      [] g.tag = "HtmlBlock" -> unsupported_html
      [] g.tag = "List" -> render_list(g)
      [] g.tag = "Item" -> MapOk(render_ast(g.children), "list.item")
      [] g.tag = "FootnoteDefinition" -> feature_disabled
      [] g.tag = "Table" -> render_table(g)
      [] g.tag = "TableHead" -> render_table_header(g)
      [] g.tag = "TableRow" -> render_table_header(g)
      [] g.tag = "TableCell" -> MapOk(render_ast(g.children), "table.cell")
      [] g.tag = "Emphasis" -> MapOk(render_ast(g.children), "emph")
      [] g.tag = "Strong" -> MapOk(render_ast(g.children), "strong")
      [] g.tag = "Strikethrough" -> MapOk(render_ast(g.children), "strike")
      [] g.tag = "Link" ->
            LET r == render_ast(g.children)
            IN  IF r.status = "Ok"
                THEN [r EXCEPT !.val = [Elem("link", <<r.val>>) EXCEPT !.text = g.text]]
                ELSE r
      [] g.tag = "Image" -> image_todo
      [] g.tag = "MetadataBlock" -> feature_disabled

\* render_tree, the arms of the leaves.
render_leaf(tree) ==
    CASE tree.node = "Text" -> Ok(ElemText("text", tree.text))
      [] tree.node = "Code" -> Ok(ElemText("raw", tree.text))
      [] tree.node = "Html" -> unsupported_html
      [] tree.node = "InlineHtml" -> unsupported_html
      [] tree.node = "FootnoteReference" -> feature_disabled
      [] tree.node = "SoftBreak" -> Ok(Elem("space", <<>>))
      [] tree.node = "HardBreak" -> Ok(Elem("linebreak", <<>>))
      [] tree.node = "Rule" -> Ok(Elem("line", <<>>))
      [] tree.node = "TaskListMarker" -> feature_disabled
      [] tree.node = "InlineMath" -> eval_string(tree.text, "Math", "Scope::new()")
      [] tree.node = "DisplayMath" ->
            eval_string(display_math_text(tree.text), "Markup",
                        "library().math.scope()")

\* The name a node has in the `visited` log.
Label(tree) == IF tree.node = "Group" THEN tree.tag ELSE tree.node

\* render_tree: the call is logged, then the arm of the node runs.
render_tree(tree) ==
    After([NoResult EXCEPT !.visited = <<Label(tree)>>],
          IF tree.node = "Group" THEN render_group(tree) ELSE render_leaf(tree))

\* TypstMarkdownRenderer::render / render_markdown: the tree that
\* Ast::new_ext built from the text is rendered by render_ast.
render_markdown(tree) == render_ast(tree)

(***************************************************************************)
(* The HTML path: MarkdownRenderable::html.                                *)
(***************************************************************************)
\* pulldown_cmark::Event; a Start carries the fields of its Tag.
Event(ev, text) ==
    [ev |-> ev, tag |-> "", text |-> text, num |-> 0, ord |-> <<>>, align |-> <<>>]

StartEvent(g) ==
    [ev |-> "Start", tag |-> g.tag, text |-> g.text, num |-> g.num,
     ord |-> g.ord, align |-> g.align]

\* TagEnd keeps the level of a heading and whether a list is ordered.
EndEvent(g) == [Event("End", <<>>) EXCEPT !.tag = g.tag, !.num = g.num, !.ord = g.ord]

\* The event stream of a text whose tree is `tree`: a group is its Start,
\* the events of its children and its End; a leaf is one event.
RECURSIVE events_of(_)
RECURSIVE events_of_all(_)
events_of(tree) ==
    IF tree.node = "Group"
    THEN <<StartEvent(tree)>> \o events_of_all(tree.children) \o <<EndEvent(tree)>>
    ELSE <<Event(tree.node, tree.text)>>

events_of_all(ts) ==
    IF ts = <<>> THEN <<>> ELSE events_of(Head(ts)) \o events_of_all(Tail(ts))

\* The two format! templates that wrap a math span into a typst document.
inline_math_document(cow_str) ==
    <<"#set page(width: auto, height: auto, margin: 0em)", "\n", "$">>
    \o cow_str \o <<"$">>

display_math_document(cow_str) ==
    <<"\n", "#set page(width: auto, height: auto, margin: 0em)", "\n", "$", " ">>
    \o cow_str \o <<" ", "$", "\n">>

\* typst_svg::svg(&doc.pages[0]) of the document compiled from f.
svg(f) == <<"<svg>">> \o f \o <<"</svg>">>

\* An accumulation that keeps only the first diagnostic of a compilation.
extend_first_only(errs, err) == Append(errs, err[1])

\* errors.extend(err)
extend(errs, err) == errs \o err

\* An Err arm that yields nothing in the place of the span.
math_failed_without_placeholder(errs, err) ==
    [emit |-> <<>>, errors |-> errs \o err]

\* The Err arm of a math span: the diagnostics are added to errors, and the
\* span becomes one empty Text event.
math_failed(errs, err) ==
    [emit |-> <<Event("Text", <<>>)>>, errors |-> extend(errs, err)]

\* The Ok arm of a math span: the span becomes one (Inline)Html event that
\* holds the svg.
math_compiled(ev, errs, f) ==
    [emit |-> <<Event(ev, svg(f))>>, errors |-> errs]

\* The world of a math span and what became of it: as it was made, as it
\* was dropped at the end of the arm, and what was read from the disk.
NoSpanWorld == [new |-> NoWorld, dropped |-> NoWorld, disk |-> {}]

SpanWorld(w) == [new |-> w, dropped |-> compile(w).world, disk |-> compile(w).disk]

\* The worlds of the spans before this one, the last of them if any.
LastSpanWorld(ws) == IF ws = <<>> THEN NoSpanWorld ELSE ws[Len(ws)]

\* An arm that goes on with the world of the span before it.
world_kept_from_last_span(f, last) ==
    IF last = NoSpanWorld THEN TypstWrapperWorld_new(f)
    ELSE [last.dropped EXCEPT !.source = f]

\* let world = TypstWrapperWorld::new(f): the world of a span is a new one;
\* `last`, the world of the span before it, was dropped.
world_of_span(f, last) == TypstWrapperWorld_new(f)

\* match typst::compile(&world).output, for the world w of the span.
math_span(ev, errs, w) ==
    IF compile(w).diags = <<>>
    THEN math_compiled(ev, errs, compile(w).doc)
    ELSE math_failed(errs, compile(w).diags)

\* syntect: the syntaxes of SyntaxSet::load_defaults_newlines that the model
\* knows, by name and by file extension.
\* "C" is the name of one syntax and a file extension of another (C++).
SyntaxNames == {<<"Rust">>, <<"Python">>, <<"C">>, <<"C++">>}

SyntaxOfExtension(lang) ==
    CASE lang = <<"rs">> -> <<"Rust">>
      [] lang = <<"py">> -> <<"Python">>
      [] lang = <<"c">> -> <<"C">>
      [] lang = <<"C">> -> <<"C++">>
      [] lang = <<"cpp">> -> <<"C++">>
      [] OTHER -> <<>>

\* A lookup that tries the file extension before the name.
find_syntax_extension_first(lang) ==
    IF SyntaxOfExtension(lang) # <<>> THEN SyntaxOfExtension(lang)
    ELSE IF lang \in SyntaxNames THEN lang
    ELSE <<"Plain Text">>

\* find_syntax_by_name(lang).or_else(find_syntax_by_extension(lang))
\*     .unwrap_or_else(find_syntax_plain_text)
find_syntax(lang) ==
    IF lang \in SyntaxNames THEN lang
    ELSE IF SyntaxOfExtension(lang) # <<>> THEN SyntaxOfExtension(lang)
    ELSE <<"Plain Text">>

NoCode == [some |-> FALSE, syntax |-> <<>>, html |-> <<>>]

\* A start arm that forgets to keep the generator it built.
no_code_kept(syntax) == NoCode

\* ClassedHTMLGenerator::new_with_class_style(syntax, ..)
SomeCode(syntax) == [some |-> TRUE, syntax |-> syntax, html |-> <<>>]

\* The escaping of text in HTML output.
escape_html(t) ==
    [i \in 1..Len(t) |->
        CASE t[i] = "<" -> "&lt;"
          [] t[i] = ">" -> "&gt;"
          [] t[i] = "&" -> "&amp;"
          [] OTHER -> t[i]]

\* LinesWithEndings::from(t): the lines of t, each with its line terminator.
RECURSIVE lines_with_endings(_, _)
lines_with_endings(t, line) ==
    IF t = <<>> THEN (IF line = <<>> THEN <<>> ELSE <<line>>)
    ELSE IF Head(t) = "\n"
         THEN <<Append(line, "\n")>> \o lines_with_endings(Tail(t), <<>>)
         ELSE lines_with_endings(Tail(t), Append(line, Head(t)))

\* parse_html_for_line_which_includes_newline, for every line in turn: a
\* line is appended as one span classed by the syntax.
RECURSIVE parse_html_for_lines(_, _)
parse_html_for_lines(code, lines) ==
    IF lines = <<>> THEN code
    ELSE parse_html_for_lines(
            [code EXCEPT !.html = @ \o <<"<span class=">> \o code.syntax \o <<">">>
                                    \o escape_html(Head(lines)) \o <<"</span>">>],
            Tail(lines))

\* An end arm that yields the highlighting without the <pre> around it.
code_block_html_without_pre(code) == Event("Html", code.html)

\* The End(TagEnd::CodeBlock) arm, once current_code is taken: one Html
\* event, <pre> around the finalized highlighting.
code_block_html(code) == Event("Html", <<"<pre>">> \o code.html \o <<"</pre>">>)

\* An arm that passes raw HTML on as text, to be escaped.
pass_on_as_text(e) ==
    IF e.ev \in {"Html", "InlineHtml"} THEN <<[e EXCEPT !.ev = "Text"]>> ELSE <<e>>

\* The arm `e => once(e)`: the event is passed on as it is.
pass_on(e) == <<e>>

\* pulldown_cmark::html::push_html keeps, while it writes a table, whether
\* it is in the head, the alignments and the index of the cell.
NoTable == [head |-> FALSE, align |-> <<>>, cell |-> 0]

\* A small number as a token.
NumStr(n) ==
    CASE n = 1 -> "1" [] n = 2 -> "2" [] n = 3 -> "3" [] n = 4 -> "4"
      [] n = 5 -> "5" [] n = 6 -> "6" [] OTHER -> "n"

\* push_html: the opening of a cell, with the alignment of its column.
html_cell_open(st) ==
    <<IF st.head THEN "<th" ELSE "<td">>
    \o (IF st.cell < Len(st.align) /\ st.align[st.cell + 1] # "None"
        THEN <<" style=text-align:", st.align[st.cell + 1]>> ELSE <<>>)
    \o <<">">>

\* push_html: what a Start event adds to the string.
html_start_tag(e, st) ==
    CASE e.tag = "Paragraph" -> <<"<p>">>
      [] e.tag = "Heading" -> <<"<h", NumStr(e.num), ">">>
      [] e.tag = "BlockQuote" -> <<"<blockquote>", "\n">>
      [] e.tag = "CodeBlock" ->
            IF e.num = 1 /\ e.text # <<>>
            THEN <<"<pre><code class=language-">> \o e.text \o <<">">>
            ELSE <<"<pre><code>">>
      [] e.tag = "HtmlBlock" -> <<>>
      [] e.tag = "List" ->
            IF e.ord = <<>> THEN <<"<ul>", "\n">>
            ELSE IF e.ord[1] = 1 THEN <<"<ol>", "\n">>
            ELSE <<"<ol start=", NumStr(e.ord[1]), ">", "\n">>
      [] e.tag = "Item" -> <<"<li>">>
      [] e.tag = "Table" -> <<"<table>">>
      [] e.tag = "TableHead" -> <<"<thead><tr>">>
      [] e.tag = "TableRow" -> <<"<tr>">>
      [] e.tag = "TableCell" -> html_cell_open(st)
      [] e.tag = "Emphasis" -> <<"<em>">>
      [] e.tag = "Strong" -> <<"<strong>">>
      [] e.tag = "Strikethrough" -> <<"<del>">>
      [] e.tag = "Link" -> <<"<a href=">> \o escape_html(e.text) \o <<">">>
      [] e.tag = "Image" -> <<"<img src=">> \o escape_html(e.text) \o <<" alt=">>
      [] OTHER -> <<>>

\* push_html: what an End event adds to the string.
html_end_tag(e, st) ==
    CASE e.tag = "Paragraph" -> <<"</p>", "\n">>
      [] e.tag = "Heading" -> <<"</h", NumStr(e.num), ">", "\n">>
      [] e.tag = "BlockQuote" -> <<"</blockquote>", "\n">>
      [] e.tag = "CodeBlock" -> <<"</code></pre>", "\n">>
      [] e.tag = "List" -> <<IF e.ord = <<>> THEN "</ul>" ELSE "</ol>", "\n">>
      [] e.tag = "Item" -> <<"</li>", "\n">>
      [] e.tag = "Table" -> <<"</tbody></table>", "\n">>
      [] e.tag = "TableHead" -> <<"</tr></thead><tbody>", "\n">>
      [] e.tag = "TableRow" -> <<"</tr>", "\n">>
      [] e.tag = "TableCell" -> <<IF st.head THEN "</th>" ELSE "</td>">>
      [] e.tag = "Emphasis" -> <<"</em>">>
      [] e.tag = "Strong" -> <<"</strong>">>
      [] e.tag = "Strikethrough" -> <<"</del>">>
      [] e.tag = "Link" -> <<"</a>">>
      [] e.tag = "Image" -> <<" />">>
      [] OTHER -> <<>>

\* push_html: what one event adds to the string.  Raw HTML is written as it
\* is, text is escaped.
html_of_event(e, st) ==
    CASE e.ev \in {"Html", "InlineHtml"} -> e.text
      [] e.ev = "Text" -> escape_html(e.text)
      [] e.ev = "Code" -> <<"<code>">> \o escape_html(e.text) \o <<"</code>">>
      [] e.ev = "Start" -> html_start_tag(e, st)
      [] e.ev = "End" -> html_end_tag(e, st)
      [] e.ev = "SoftBreak" -> <<"\n">>
      [] e.ev = "HardBreak" -> <<"<br />", "\n">>
      [] e.ev = "Rule" -> <<"<hr />", "\n">>
      [] OTHER -> <<>>

\* push_html: the table state after one event.
html_table_state(e, st) ==
    CASE e.ev = "Start" /\ e.tag = "Table" -> [st EXCEPT !.align = e.align]
      [] e.ev = "Start" /\ e.tag = "TableHead" -> [st EXCEPT !.head = TRUE, !.cell = 0]
      [] e.ev = "Start" /\ e.tag = "TableRow" -> [st EXCEPT !.cell = 0]
      [] e.ev = "End" /\ e.tag = "TableHead" -> [st EXCEPT !.head = FALSE]
      [] e.ev = "End" /\ e.tag = "TableCell" -> [st EXCEPT !.cell = @ + 1]
      [] OTHER -> st

\* push_html: for each event of the stream, what it adds to the string.
RECURSIVE html_pieces(_, _)
html_pieces(out, st) ==
    IF out = <<>> THEN <<>>
    ELSE <<html_of_event(Head(out), st)>>
         \o html_pieces(Tail(out), html_table_state(Head(out), st))

\* The stream the flat_map yields: what was emitted for each event, in order.
RECURSIVE Flatten(_)
Flatten(ss) == IF ss = <<>> THEN <<>> ELSE Head(ss) \o Flatten(Tail(ss))

\* pulldown_cmark::html::push_html(&mut s, parser): the string.
push_html(out) == Flatten(html_pieces(out, NoTable))

\* An end of html that returns the error whatever was accumulated.
html_result_always_err(errs, s) == Err("TypstError", errs)

\* An end of html that returns the string whatever was accumulated.
html_result_always_ok(errs, s) == Ok(s)

\* The end of html: Err with all the diagnostics if there are any, else Ok
\* with the string.
html_result(errs, s) ==
    IF errs # <<>> THEN Err("TypstError", errs) ELSE Ok(s)

(***************************************************************************)
(* The inputs.  ParserBlocks are top-level trees that the parser builds    *)
(* from text, under CMARK_OPTIONS; OtherBlocks are values of the Tree type *)
(* that the parser never builds (tables without a head, the variants of    *)
(* disabled features, ...), which only render_tree's own arms speak of.    *)
(***************************************************************************)
T == Leaf("Text", <<"a">>)

MathOk == <<"x">>

MathPadded == <<" ", "x", " ">>

MathBad1 == <<"(">>

MathBad2 == <<"(", "x", "#u">>

Paragraph(children) == Group("Paragraph", children)

Item(children) == Group("Item", children)

Cell(children) == Group("TableCell", children)

ParagraphBlocks ==
    { Paragraph(<<T>>),
      Paragraph(<<T, Leaf("InlineMath", MathOk), T>>),
      Paragraph(<<Leaf("InlineMath", MathBad1)>>),
      Paragraph(<<Leaf("DisplayMath", MathBad2)>>),
      Paragraph(<<Leaf("DisplayMath", MathPadded)>>),
      Paragraph(<<Leaf("InlineMath", MathBad2), Leaf("InlineMath", MathOk),
                  Leaf("DisplayMath", MathBad1)>>),
      Paragraph(<<T, Leaf("InlineHtml", <<"<b>">>), T>>),
      Paragraph(<<Image(<<"i.png">>, <<T>>)>>),
      Paragraph(<<Group("Emphasis", <<T>>), Group("Strong", <<T>>),
                  Leaf("SoftBreak", <<>>), Group("Strikethrough", <<T>>),
                  Leaf("HardBreak", <<>>), Link(<<"http://u">>, <<T>>),
                  Leaf("Code", <<"<", "c">>)>>) }

ListBlocks ==
    { List(<<3>>, <<Item(<<T>>),
                    Item(<<T, List(<<1>>, <<Item(<<T>>), Item(<<T>>)>>)>>),
                    Item(<<T>>)>>),
      List(<<1>>, <<Item(<<Paragraph(<<T>>)>>),
                    Item(<<Paragraph(<<Leaf("InlineMath", MathBad1)>>)>>),
                    Item(<<Paragraph(<<Leaf("InlineHtml", <<"<i>">>)>>)>>)>>),
      List(<<>>, <<Item(<<T>>), Item(<<Leaf("InlineMath", MathOk)>>)>>) }

TableBlocks ==
    { Table(<<"None", "Left">>,
            <<Group("TableHead", <<Cell(<<T>>), Cell(<<T>>)>>),
              Group("TableRow", <<Cell(<<T>>), Cell(<<Leaf("InlineMath", MathOk)>>)>>),
              Group("TableRow", <<Cell(<<>>), Cell(<<T>>)>>)>>),
      Table(<<"Center">>,
            <<Group("TableHead", <<Cell(<<T>>)>>),
              Group("TableRow", <<Cell(<<Leaf("InlineHtml", <<"<b>">>)>>)>>),
              Group("TableRow", <<Cell(<<Leaf("InlineMath", MathBad1)>>)>>)>>) }

OtherParserBlocks ==
    { Heading(2, <<T>>),
      Group("BlockQuote", <<Paragraph(<<T>>)>>),
      Group("HtmlBlock", <<Leaf("Html", <<"<div>", "\n">>)>>),
      FencedCodeBlock(<<"rs">>, <<Leaf("Text", <<"f", "\n", "<", "\n">>)>>),
      FencedCodeBlock(<<"zz">>, <<Leaf("Text", <<"f", "\n">>), Leaf("Text", <<"g">>)>>),
      IndentedCodeBlock(<<Leaf("Text", <<"f", "\n">>)>>),
      Leaf("Rule", <<>>) }

ParserBlocks == ParagraphBlocks \cup ListBlocks \cup TableBlocks \cup OtherParserBlocks

OtherBlocks ==
    { Table(<<>>, <<>>),
      Table(<<"None">>, <<Group("TableRow", <<Cell(<<T>>)>>)>>),
      Table(<<"None">>, <<T>>),
      Table(<<"None">>, <<Group("TableHead", <<Cell(<<T>>)>>), Paragraph(<<T>>)>>),
      Table(<<"None">>, <<Group("TableHead", <<Cell(<<Leaf("InlineHtml", <<"<b>">>)>>)>>),
                          Paragraph(<<T>>)>>),
      Table(<<"None">>, <<Group("TableHead", <<T>>)>>),
      Paragraph(<<T, Leaf("FootnoteReference", <<"n">>)>>),
      Paragraph(<<Leaf("InlineHtml", <<"<b>">>), Leaf("FootnoteReference", <<"n">>)>>),
      List(<<>>, <<Item(<<Leaf("TaskListMarker", <<>>), T>>)>>),
      Group("FootnoteDefinition", <<Paragraph(<<T>>)>>),
      Group("MetadataBlock", <<T>>),
      List(<<1>>, <<Paragraph(<<T>>)>>),
      List(<<>>, <<T>>),
      IndentedCodeBlock(<<Leaf("InlineMath", MathOk)>>) }

\* Tables with a row that has fewer cells than the head; the parser fills
\* such a row of the text with empty cells, so it never builds these.
ShortRowBlocks ==
    { Table(<<"None", "Left">>,
            <<Group("TableHead", <<Cell(<<Leaf("Text", <<"h">>)>>),
                                   Cell(<<Leaf("Text", <<"i">>)>>)>>),
              Group("TableRow", <<Cell(<<Leaf("Text", <<"r">>)>>)>>),
              Group("TableRow", <<Cell(<<Leaf("Text", <<"s">>)>>),
                                  Cell(<<Leaf("Text", <<"t">>)>>)>>)>>),
      Table(<<"Center", "None">>,
            <<Group("TableHead", <<Cell(<<Leaf("Text", <<"h">>)>>),
                                   Cell(<<Leaf("Text", <<"i">>)>>)>>),
              Group("TableRow", <<Cell(<<Leaf("Text", <<"r">>)>>),
                                  Cell(<<Leaf("Text", <<"s">>)>>)>>),
              Group("TableRow", <<Cell(<<Leaf("Text", <<"t">>)>>)>>)>>) }

\* The info strings of the fences: the name of a syntax, a file extension,
\* a name that is also an extension of another syntax, an unknown language
\* and no language.
CodeLangs == {<<"Rust">>, <<"rs">>, <<"C">>, <<"zz">>, <<>>}

CodeBlocks ==
    { FencedCodeBlock(lang, <<Leaf("Text", <<"f", "\n">>)>>) : lang \in CodeLangs }
    \cup { IndentedCodeBlock(<<Leaf("Text", <<"f", "\n">>)>>),
           FencedCodeBlock(<<"py">>, <<Leaf("Text", <<"f", "\n">>),
                                       Leaf("Text", <<"<", "g", "\n", "h">>)>>),
           Paragraph(<<T>>) }

\* The documents of at most MaxBlocks top-level blocks from `blocks`.
Docs(blocks) == UNION { [1..n -> blocks] : n \in 0..MaxBlocks }

(***************************************************************************)
(* The state machine: one call of one renderer on one text.                *)
(***************************************************************************)
\* The world a caller of content passes: render_pdf makes it from its
\* template, just before the call.
CallerWorld == TypstWrapperWorld_new(<<"template">>)

\* lazy_static! { static ref FONTS: FontsHolder = .. }: nothing has run the
\* initializer yet, there is no value.
NoFonts == [state |-> "uninit", value |-> "none", inits |-> 0]

\* No call runs on a thread of its own.
NoThreads == [t \in {} |-> 0]

\* No call on a Config is looked at.
NoConfig == [at |-> "none"]

NoPdf == [at |-> "none"]

\* The start of a call of one of `calls` on one of `docs`, in a process
\* that has not made a call yet.
InitDocs(docs, calls) ==
    /\ ast \in docs
    /\ call \in calls
    /\ events = IF call = "html" THEN events_of_all(ast) ELSE <<>>
    /\ pc = "run"
    /\ pos = 1
    /\ errors = <<>>
    /\ current_code = NoCode
    /\ emitted = <<>>
    /\ evaluated = <<>>
    /\ result = NoResult
    /\ clock = 1
    /\ world = IF call = "content" THEN CallerWorld ELSE NoWorld
    /\ span_worlds = <<>>
    /\ history = EmptyBag
    /\ FONTS = NoFonts
    /\ threads = NoThreads
    /\ config = NoConfig
    /\ pdf = NoPdf

InitWith(blocks, calls) == InitDocs(Docs(blocks), calls)

Init == InitWith(ParserBlocks, {"content", "html"})

\* MarkdownRenderable::content: render_markdown on the text.
content ==
    /\ call = "content"
    /\ pc = "run"
    /\ result' = render_markdown(ast)
    /\ evaluated' = result'.evals
    /\ world' = world_after_evals(result'.evals, world)
    /\ pc' = "done"
    /\ UNCHANGED <<ast, call, events, pos, errors, current_code, emitted>>
    /\ UNCHANGED <<span_worlds, clock, history, FONTS, threads, config, pdf>>

\* The closure of html has the next event to map.
HtmlAt(evs) ==
    /\ call = "html"
    /\ pc = "run"
    /\ pos <= Len(events)
    /\ events[pos].ev \in evs

\* html, the InlineMath arm.
html_inline_math ==
    /\ HtmlAt({"InlineMath"})
    /\ LET f == inline_math_document(events[pos].text)
           w == world_of_span(f, LastSpanWorld(span_worlds))
           r == math_span("InlineHtml", errors, w)
       IN  /\ errors' = r.errors
           /\ emitted' = Append(emitted, r.emit)
           /\ evaluated' = Append(evaluated, f)
           /\ span_worlds' = Append(span_worlds, SpanWorld(w))
    /\ pos' = pos + 1
    /\ UNCHANGED <<ast, call, events, pc, current_code, result>>
    /\ UNCHANGED outside_call

\* html, the DisplayMath arm.
html_display_math ==
    /\ HtmlAt({"DisplayMath"})
    /\ LET f == display_math_document(events[pos].text)
           w == world_of_span(f, LastSpanWorld(span_worlds))
           r == math_span("Html", errors, w)
       IN  /\ errors' = r.errors
           /\ emitted' = Append(emitted, r.emit)
           /\ evaluated' = Append(evaluated, f)
           /\ span_worlds' = Append(span_worlds, SpanWorld(w))
    /\ pos' = pos + 1
    /\ UNCHANGED <<ast, call, events, pc, current_code, result>>
    /\ UNCHANGED outside_call

\* html, the Start(Tag::CodeBlock(kind)) arm.
html_start_code_block ==
    /\ HtmlAt({"Start"})
    /\ events[pos].tag = "CodeBlock"
    /\ LET lang == IF events[pos].num = 1 THEN events[pos].text ELSE <<>>
       IN  current_code' = SomeCode(find_syntax(lang))
    /\ emitted' = Append(emitted, <<>>)
    /\ pos' = pos + 1
    /\ UNCHANGED <<ast, call, events, pc, errors, evaluated, result>>
    /\ UNCHANGED <<span_worlds, outside_call>>

\* html, the Text arm.
html_text ==
    /\ HtmlAt({"Text"})
    /\ IF current_code.some
       THEN /\ current_code' =
                  parse_html_for_lines(current_code,
                                       lines_with_endings(events[pos].text, <<>>))
            /\ emitted' = Append(emitted, <<>>)
       ELSE /\ emitted' = Append(emitted, <<events[pos]>>)
            /\ UNCHANGED current_code
    /\ pos' = pos + 1
    /\ UNCHANGED <<ast, call, events, pc, errors, evaluated, result>>
    /\ UNCHANGED <<span_worlds, outside_call>>

\* html, the End(TagEnd::CodeBlock) arm; take() on None fails the expect.
html_end_code_block ==
    /\ HtmlAt({"End"})
    /\ events[pos].tag = "CodeBlock"
    /\ IF current_code.some
       THEN /\ emitted' = Append(emitted, <<code_block_html(current_code)>>)
            /\ current_code' = NoCode
            /\ pos' = pos + 1
            /\ UNCHANGED <<pc, result>>
       ELSE /\ result' = Panic("Can't have end without start")
            /\ pc' = "done"
            /\ UNCHANGED <<emitted, current_code, pos>>
    /\ UNCHANGED <<ast, call, events, errors, evaluated>>
    /\ UNCHANGED <<span_worlds, outside_call>>

\* html, the arm of every other event.
html_other ==
    /\ HtmlAt({"Start", "End", "Code", "Html", "InlineHtml", "FootnoteReference",
               "SoftBreak", "HardBreak", "Rule", "TaskListMarker"})
    /\ events[pos].ev \in {"Start", "End"} => events[pos].tag # "CodeBlock"
    /\ emitted' = Append(emitted, pass_on(events[pos]))
    /\ pos' = pos + 1
    /\ UNCHANGED <<ast, call, events, pc, errors, current_code, evaluated, result>>
    /\ UNCHANGED <<span_worlds, outside_call>>

\* html, after the stream has ended: push_html has built the string.
html_return ==
    /\ call = "html"
    /\ pc = "run"
    /\ pos > Len(events)
    /\ result' = html_result(errors, push_html(Flatten(emitted)))
    /\ pc' = "done"
    /\ UNCHANGED <<ast, call, events, pos, errors, current_code, emitted, evaluated>>
    /\ UNCHANGED <<span_worlds, outside_call>>

Next ==
    \/ content
    \/ html_inline_math
    \/ html_display_math
    \/ html_start_code_block
    \/ html_text
    \/ html_end_code_block
    \/ html_other
    \/ html_return

Spec == Init /\ [][Next]_vars

\* render_tree on any value of the Tree type.
InitTree == InitWith(ParserBlocks \cup OtherBlocks \cup ShortRowBlocks, {"content"})

NextTree == content

SpecTree == InitTree /\ [][NextTree]_vars

(***************************************************************************)
(* A process that makes one call after the other, while its clock runs.    *)
(***************************************************************************)
M(text) == Leaf("InlineMath", text)

\* The texts of the calls of a process: math that reads the date, math that
\* reads a file twice, math that defines a name and math that uses it, two
\* texts with neither math nor raw HTML, and an image.
CallDocs ==
    { <<Paragraph(<<M(<<"#today">>)>>)>>,
      <<Paragraph(<<M(<<"#read">>), Leaf("DisplayMath", <<"#read">>)>>)>>,
      <<Paragraph(<<M(<<"#let", "#u">>), M(<<"#u">>)>>)>>,
      <<Heading(2, <<T>>),
        List(<<3>>, <<Item(<<T>>), Item(<<Paragraph(<<T>>)>>)>>),
        Table(<<"None", "Left">>,
              <<Group("TableHead", <<Cell(<<T>>), Cell(<<T>>)>>),
                Group("TableRow", <<Cell(<<T>>), Cell(<<>>)>>)>>)>>,
      <<Group("BlockQuote", <<Paragraph(<<T>>)>>),
        FencedCodeBlock(<<"rs">>, <<Leaf("Text", <<"f", "\n">>)>>),
        List(<<>>, <<Item(<<T>>)>>),
        Leaf("Rule", <<>>)>>,
      <<Paragraph(<<Image(<<"i.png">>, <<T>>)>>)>> }

\* What the history keeps of the call that has ended: the call, its text,
\* the world it was passed, the times of the worlds it made, its result.
EndedCall ==
    [call |-> call, ast |-> ast, world |-> world,
     times |-> [i \in 1..Len(span_worlds) |-> span_worlds[i].new.time],
     result |-> result]

InitCalls == InitDocs(CallDocs, {"content", "html"})

\* The call has ended; the process makes another one: every variable of a
\* call starts anew (let mut errors = Vec::new(), let mut current_code =
\* None; the caller of content makes the world it passes).
next_call ==
    /\ pc = "done"
    /\ BagCardinality(history) < MaxCalls
    /\ history' = history (+) SetToBag({EndedCall})
    /\ ast' \in CallDocs
    /\ call' \in {"content", "html"}
    /\ events' = IF call' = "html" THEN events_of_all(ast') ELSE <<>>
    /\ pc' = "run"
    /\ pos' = 1
    /\ errors' = <<>>
    /\ current_code' = NoCode
    /\ emitted' = <<>>
    /\ evaluated' = <<>>
    /\ result' = NoResult
    /\ world' = IF call' = "content" THEN CallerWorld ELSE NoWorld
    /\ span_worlds' = <<>>
    /\ UNCHANGED <<clock, FONTS, threads, config, pdf>>

\* Midnight, UTC.
tick ==
    /\ clock < MaxDate
    /\ clock' = clock + 1
    /\ UNCHANGED <<ast, call, events, pc, pos, errors, current_code, emitted,
                   evaluated, result, world, span_worlds, history, FONTS,
                   threads, config, pdf>>

NextCalls == Next \/ next_call \/ tick

SpecCalls == InitCalls /\ [][NextCalls]_vars

\* The calls that have ended, the one that has just ended among them.
Ended ==
    BagToSet(history) \cup (IF pc = "done" THEN {EndedCall} ELSE {})

(***************************************************************************)
(* Calls that run at the same time on threads of their own.  Of a call     *)
(* only what it shares with the others is kept: html loads the syntaxes    *)
(* when it starts, and the world of every math span it compiles reads the  *)
(* fonts through the lazy static FONTS (World::book, World::font); content *)
(* evaluates without either.                                               *)
(***************************************************************************)
Threads == 1..MaxThreads

\* The calls a thread may make: content, or html on a text of 0, 1 or 2
\* math spans.
ThreadCalls ==
    {[call |-> "content", spans |-> 0]}
    \cup {[call |-> "html", spans |-> n] : n \in 0..2}

\* A thread before its call: where it is, the math spans it has yet to
\* compile, the syntax sets it has loaded, the values of FONTS it has read,
\* whether it had to wait for the initializer of another thread.
Thread(c) ==
    [call |-> c.call, spans |-> c.spans, at |-> "start", loads |-> 0,
     syntax_set |-> "none", read |-> {}, waited |-> FALSE]

\* Once::call_once, racing: a thread runs the initializer whenever the
\* value is not there yet.
may_initialize_unsynchronized(state) == state # "ready"

\* Once::call_once: the thread that finds the static untouched runs the
\* initializer; no other thread does.
may_initialize(state) == state = "uninit"

InitThreads ==
    /\ ast = <<>>
    /\ call = "threads"
    /\ events = <<>>
    /\ pc = "done"
    /\ pos = 1
    /\ errors = <<>>
    /\ current_code = NoCode
    /\ emitted = <<>>
    /\ evaluated = <<>>
    /\ result = NoResult
    /\ clock = 1
    /\ world = NoWorld
    /\ span_worlds = <<>>
    /\ history = EmptyBag
    /\ FONTS = NoFonts
    /\ threads \in [Threads -> {Thread(c) : c \in ThreadCalls}]
    /\ config = NoConfig
    /\ pdf = NoPdf

one_call == <<ast, call, events, pc, pos, errors, current_code, emitted,
              evaluated, result, world, span_worlds, clock, history, config,
              pdf>>

\* content(&world): the evaluation of math reads neither static.
thread_content(t) ==
    /\ threads[t].at = "start"
    /\ threads[t].call = "content"
    /\ threads' = [threads EXCEPT ![t].at = "done"]
    /\ UNCHANGED <<FONTS, one_call>>

\* html, markdown.rs:96: let syntax_set = SyntaxSet::load_defaults_newlines(),
\* a local of the call.
thread_load_defaults_newlines(t) ==
    /\ threads[t].at = "start"
    /\ threads[t].call = "html"
    /\ threads' = [threads EXCEPT ![t].at = "events", ![t].loads = @ + 1,
                                  ![t].syntax_set = "loaded"]
    /\ UNCHANGED <<FONTS, one_call>>

\* typst::compile(&world) of a math span comes to &FONTS.book: the deref of
\* the lazy static.  The thread runs the initializer, or finds the value,
\* or has to wait for the thread that runs the initializer.
thread_deref(t) ==
    /\ threads[t].at = "events"
    /\ threads[t].spans > 0
    /\ IF may_initialize(FONTS.state)
       THEN /\ FONTS' = [FONTS EXCEPT !.state = "running"]
            /\ threads' = [threads EXCEPT ![t].at = "init"]
       ELSE /\ threads' =
                  IF FONTS.state = "ready"
                  THEN [threads EXCEPT ![t].at = "read"]
                  ELSE [threads EXCEPT ![t].at = "blocked", ![t].waited = TRUE]
            /\ UNCHANGED FONTS
    /\ UNCHANGED one_call

\* The initializer ends: Fonts::searcher().include_system_fonts(false)
\* .search() has built the FontsHolder.
thread_initialize(t) ==
    /\ threads[t].at = "init"
    /\ FONTS' = [state |-> "ready", value |-> "fonts", inits |-> FONTS.inits + 1]
    /\ threads' = [threads EXCEPT ![t].at = "read"]
    /\ UNCHANGED one_call

\* The initializer of another thread has ended: the waiting thread goes on.
thread_wake(t) ==
    /\ threads[t].at = "blocked"
    /\ FONTS.state = "ready"
    /\ threads' = [threads EXCEPT ![t].at = "read"]
    /\ UNCHANGED <<FONTS, one_call>>

\* &FONTS.book, FONTS.fonts[id].get(): the span is compiled with the value.
thread_read(t) ==
    /\ threads[t].at = "read"
    /\ threads' = [threads EXCEPT ![t].at = "events", ![t].spans = @ - 1,
                                  ![t].read = @ \cup {FONTS.value}]
    /\ UNCHANGED <<FONTS, one_call>>

\* html returns; its syntax set is dropped.
thread_return(t) ==
    /\ threads[t].at = "events"
    /\ threads[t].spans = 0
    /\ threads' = [threads EXCEPT ![t].at = "done", ![t].syntax_set = "dropped"]
    /\ UNCHANGED <<FONTS, one_call>>

NextThreads ==
    \E t \in Threads :
        \/ thread_content(t)
        \/ thread_load_defaults_newlines(t)
        \/ thread_deref(t)
        \/ thread_initialize(t)
        \/ thread_wake(t)
        \/ thread_read(t)
        \/ thread_return(t)

SpecThreads == InitThreads /\ [][NextThreads]_vars

\* content on documents of paragraphs of math: inline and display spans,
\* padded with blanks or not, that evaluate or that leave one diagnostic or
\* several.
MathTexts ==
    {MathOk, MathPadded, MathBad1, MathBad2, <<" ", "(", "#read", "\n">>,
     <<"#let", "#u">>}

MathBlocks ==
    {Paragraph(<<Leaf(kind, text)>>) :
        kind \in {"InlineMath", "DisplayMath"}, text \in MathTexts}
    \cup {Paragraph(<<T, Leaf("InlineMath", MathPadded), Leaf("DisplayMath", MathOk)>>)}

InitMath == InitWith(MathBlocks, {"content"})

NextMath == content

SpecMath == InitMath /\ [][NextMath]_vars

\* html on documents of code blocks, fenced with every kind of info string.
InitCode == InitWith(CodeBlocks, {"html"})

NextCode ==
    \/ html_start_code_block
    \/ html_text
    \/ html_end_code_block
    \/ html_other
    \/ html_return

SpecCode == InitCode /\ [][NextCode]_vars

(***************************************************************************)
(* What the claims speak of, defined on the input alone.                   *)
(***************************************************************************)
\* The nodes of a forest in document order: depth first, left to right.
RECURSIVE PreOrder(_)
PreOrder(ts) ==
    IF ts = <<>> THEN <<>>
    ELSE <<Head(ts)>> \o PreOrder(Head(ts).children) \o PreOrder(Tail(ts))

IsRawHtml(n) ==
    \/ n.node \in {"Html", "InlineHtml"}
    \/ n.node = "Group" /\ n.tag = "HtmlBlock"

IsFailingMath(n) ==
    n.node \in {"InlineMath", "DisplayMath"} /\ eval_diagnostics(n.text) # <<>>

IsImage(n) == n.node = "Group" /\ n.tag = "Image"

\* A node that does not render, whatever is around it.
FailsAlone(n) == IsRawHtml(n) \/ IsFailingMath(n) \/ IsImage(n)

FailingNodes(ts) == SelectSeq(PreOrder(ts), FailsAlone)

DisabledFeatures ==
    {"FootnoteReference", "TaskListMarker", "MetadataBlock", "FootnoteDefinition"}

\* The elements of a content value, in document order.
RECURSIVE ContentPreOrder(_)
ContentPreOrder(cs) ==
    IF cs = <<>> THEN <<>>
    ELSE <<Head(cs)>> \o ContentPreOrder(Head(cs).children)
         \o ContentPreOrder(Tail(cs))

ContentDone == call = "content" /\ pc = "done"

HtmlDone == call = "html" /\ pc = "done"

Range(f) == { f[i] : i \in DOMAIN f }

(***************************************************************************)
(* C1: content-tree rendering is fail-fast: whenever at least one node of  *)
(* the tree fails, the call returns Err carrying exactly the error of the  *)
(* first failing node in document order, and never Ok.                     *)
(* The statement of the claim, for the nodes that fail with an error value *)
(* (raw HTML, math that does not evaluate); when an Image comes before the *)
(* first of them the call is a panic (todo!()) and returns nothing.        *)
(***************************************************************************)
FailsWithError(n) == IsRawHtml(n) \/ IsFailingMath(n)

C1_FailFastReturnsFirstError ==
    (ContentDone /\ SelectSeq(PreOrder(ast), FailsWithError) # <<>>) =>
        LET first == SelectSeq(PreOrder(ast), FailsWithError)[1]
        IN  /\ result.status = "Err"
            /\ IsRawHtml(first) => result.error = "UnsupportedHtml"
            /\ IsFailingMath(first) =>
                  /\ result.error = "TypstError"
                  /\ result.diags = render_leaf(first).diags

(***************************************************************************)
(* C5: in the content-tree path a raw HTML node (HtmlBlock, Html,          *)
(* InlineHtml) that is rendered always fails with UnsupportedHtml; an Ok   *)
(* result never comes from a tree with raw HTML and never holds a raw HTML *)
(* element; a tree whose first failing node is raw HTML returns            *)
(* UnsupportedHtml.                                                        *)
(***************************************************************************)
C5_RawHtmlIsUnsupported ==
    ContentDone =>
        /\ (\E i \in DOMAIN result.visited :
                result.visited[i] \in {"HtmlBlock", "Html", "InlineHtml"})
              => (result.status = "Err" /\ result.error = "UnsupportedHtml")
        /\ result.status = "Ok" =>
              /\ \A i \in DOMAIN PreOrder(ast) : ~IsRawHtml(PreOrder(ast)[i])
              /\ \A c \in Range(ContentPreOrder(<<result.val>>)) :
                    c.elem \notin {"html", "HtmlBlock", "Html", "InlineHtml"}
        /\ (FailingNodes(ast) # <<>> /\ IsRawHtml(FailingNodes(ast)[1]))
              => (result.status = "Err" /\ result.error = "UnsupportedHtml")

\* C5's case: a raw HTML node that comes after math that evaluated was
\* rendered, and the call returned UnsupportedHtml.
C5_Witness ==
    /\ ContentDone
    /\ result.status = "Err"
    /\ result.error = "UnsupportedHtml"
    /\ result.evals # <<>>
    /\ result.visited[Len(result.visited)] = "InlineHtml"

(***************************************************************************)
(* C7: a Table group whose first child is not a TableHead group (a Table   *)
(* without children, a later child that is no TableRow) makes render       *)
(* return a recoverable MalformedTable error, never a panic.               *)
(* The statement of the claim; the code has no such error and panics.      *)
(***************************************************************************)
IsMalformedTable(n) ==
    /\ n.node = "Group"
    /\ n.tag = "Table"
    /\ \/ n.children = <<>>
       \/ ~(n.children[1].node = "Group" /\ n.children[1].tag = "TableHead")
       \/ \E i \in 2..Len(n.children) :
             ~(n.children[i].node = "Group" /\ n.children[i].tag = "TableRow")

IsOrderedList(n) == n.node = "Group" /\ n.tag = "List" /\ n.ord # <<>>

IsEnum(c) == c.elem = "enum"

OrderedLists(ts) == SelectSeq(PreOrder(ts), IsOrderedList)

Enums(c) == SelectSeq(ContentPreOrder(<<c>>), IsEnum)

ItemNumbers(enum) == [i \in 1..Len(enum.children) |-> enum.children[i].num]

C8_OrderedListNumbering ==
    (ContentDone /\ result.status = "Ok") =>
        /\ Len(Enums(result.val)) = Len(OrderedLists(ast))
        /\ \A k \in 1..Len(OrderedLists(ast)) :
              LET list == OrderedLists(ast)[k]
              IN  ItemNumbers(Enums(result.val)[k]) =
                     [i \in 1..Len(list.children) |-> list.ord[1] + (i - 1)]

\* C8's case: a list that starts at 3 with a list that starts at 1 nested in
\* its second item was rendered: 3, 4, 5 outside and 1, 2 inside.
C8_Witness ==
    /\ ContentDone
    /\ result.status = "Ok"
    /\ Len(Enums(result.val)) >= 2
    /\ ItemNumbers(Enums(result.val)[1]) = <<3, 4, 5>>
    /\ ItemNumbers(Enums(result.val)[2]) = <<1, 2>>

(***************************************************************************)
(* C9: an Image group that is rendered in the content-tree path is neither *)
(* dropped nor a success nor a crash: render returns an error value.       *)
(* The statement of the claim; the code is todo!(), a panic.               *)
(***************************************************************************)
C9_ImageIsAnErrorValue ==
    (ContentDone /\ "Image" \in Range(result.visited)) => result.status = "Err"

(***************************************************************************)
(* C10: a node of a disabled feature (FootnoteReference, TaskListMarker,   *)
(* MetadataBlock, FootnoteDefinition) that is rendered in the content-tree *)
(* path ends the render as an internal-invariant violation: never Ok, and  *)
(* never the errors UnsupportedHtml or TypstError.                         *)
(***************************************************************************)
C10_DisabledFeatureIsFatal ==
    (ContentDone /\ Range(result.visited) \cap DisabledFeatures # {}) =>
        /\ result.status = "Panic"
        /\ result.status # "Ok"
        /\ result.error \notin {"UnsupportedHtml", "TypstError"}
        /\ result.visited[Len(result.visited)] \in DisabledFeatures

\* C10's case: a footnote reference after rendered text ended the call.
C10_Witness ==
    /\ ContentDone
    /\ result.status = "Panic"
    /\ Len(result.visited) >= 3
    /\ result.visited[Len(result.visited)] = "FootnoteReference"

(***************************************************************************)
(* What the claims on the HTML path speak of.                              *)
(***************************************************************************)
IsMath(e) == e.ev \in {"InlineMath", "DisplayMath"}

\* The diagnostics of the compilation of a math span; <<>> if it compiles.
SpanDiags(e) ==
    IF e.ev = "InlineMath" THEN typst_diagnostics(inline_math_document(e.text))
    ELSE IF e.ev = "DisplayMath" THEN typst_diagnostics(display_math_document(e.text))
    ELSE <<>>

IsFailingSpan(e) == IsMath(e) /\ SpanDiags(e) # <<>>

\* The diagnostics of all the spans of a stream, in the order of the spans.
RECURSIVE AllSpanDiags(_)
AllSpanDiags(evs) ==
    IF evs = <<>> THEN <<>> ELSE SpanDiags(Head(evs)) \o AllSpanDiags(Tail(evs))

Placeholder == [ev |-> "Text", tag |-> "", text |-> <<>>, num |-> 0,
                ord |-> <<>>, align |-> <<>>]

(***************************************************************************)
(* C2: in the HTML path a math span that fails to evaluate does not stop   *)
(* the pass: the step that reads it yields exactly one empty Text event in *)
(* its place, appends its diagnostics to the accumulated list and moves to *)
(* the next event; and the pass ends only when every event was read.       *)
(***************************************************************************)
C2_FailedMathDoesNotStopThePass ==
    /\ [][(HtmlAt({"InlineMath", "DisplayMath"}) /\ IsFailingSpan(events[pos])) =>
             /\ pc' = "run"
             /\ pos' = pos + 1
             /\ emitted' = Append(emitted, <<Placeholder>>)
             /\ errors' = errors \o SpanDiags(events[pos])]_vars
    /\ [](HtmlDone => (pos = Len(events) + 1 /\ Len(emitted) = Len(events)))

\* C2's case: the pass has ended, a span in it failed and became the
\* placeholder, and events after it were passed on.
C2_Witness ==
    /\ HtmlDone
    /\ \E i \in 1..Len(events) :
          /\ IsFailingSpan(events[i])
          /\ emitted[i] = <<Placeholder>>
          /\ \E j \in (i + 1)..Len(events) : emitted[j] = <<events[j]>>

(***************************************************************************)
(* C3: html returns Ok(html) if and only if the accumulated diagnostic     *)
(* list is empty at the end of the pass, that is if and only if no math    *)
(* span failed; otherwise it returns Err(TypstError(diagnostics)) and the  *)
(* string that was built is not returned.                                  *)
(***************************************************************************)
C3_HtmlOkIffNoDiagnostics ==
    HtmlDone =>
        /\ result.status \in {"Ok", "Err"}
        /\ result.status = "Ok" <=> errors = <<>>
        /\ result.status = "Err" <=>
              \E i \in DOMAIN events : IsFailingSpan(events[i])
        /\ result.status = "Ok" => result.val = push_html(Flatten(emitted))
        /\ result.status = "Err" =>
              /\ result.error = "TypstError"
              /\ result.diags = errors
              /\ result.val = <<>>

\* C3's case: a pass with a failed span ended in Err although a string with
\* the placeholder in it had been built.
C3_Witness ==
    /\ HtmlDone
    /\ result.status = "Err"
    /\ errors # <<>>
    /\ <<Placeholder>> \in Range(emitted)
    /\ push_html(Flatten(emitted)) # <<>>

(***************************************************************************)
(* C4: the diagnostic list of an Err of html holds every diagnostic of     *)
(* every failing math span of the document (all of each failed             *)
(* compilation, not only the first), in the order of the spans, and        *)
(* nothing from a span that compiled.                                      *)
(***************************************************************************)
C4_ErrHoldsAllDiagnosticsInOrder ==
    (HtmlDone /\ result.status = "Err") =>
        /\ result.diags = AllSpanDiags(events)
        /\ Len(result.diags) >=
              Cardinality({i \in DOMAIN events : IsFailingSpan(events[i])})

\* C4's case: two spans failed, one of them with two diagnostics, with a
\* span that compiled between them.
C4_Witness ==
    /\ HtmlDone
    /\ result.status = "Err"
    /\ Len(result.diags) >= 3
    /\ \E i, j, k \in DOMAIN events :
          /\ i < j /\ j < k
          /\ IsFailingSpan(events[i]) /\ Len(SpanDiags(events[i])) = 2
          /\ IsMath(events[j]) /\ ~IsFailingSpan(events[j])
          /\ IsFailingSpan(events[k])

(***************************************************************************)
(* C6: in the HTML path a raw HTML event (block or inline) is passed on    *)
(* unchanged and in its place, adds nothing to the diagnostic list, and a  *)
(* document with no math renders to Ok, the raw HTML being, verbatim, the   *)
(* piece of the string at the place of its event.                          *)
(***************************************************************************)
IsRawHtmlEvent(e) == e.ev \in {"Html", "InlineHtml"}

C6_RawHtmlPassesThrough ==
    call = "html" =>
        /\ \A i \in 1..Len(emitted) :
              IsRawHtmlEvent(events[i]) => emitted[i] = <<events[i]>>
        /\ (\A i \in 1..Len(emitted) : ~IsMath(events[i])) => errors = <<>>
        /\ (pc = "done" /\ \A i \in DOMAIN events : ~IsMath(events[i])) =>
              LET pieces == html_pieces(Flatten(emitted), NoTable)
              IN  /\ result.status = "Ok"
                  /\ result.val = Flatten(pieces)
                  /\ \A i \in DOMAIN events :
                        IsRawHtmlEvent(events[i]) =>
                           pieces[Len(Flatten(SubSeq(emitted, 1, i - 1))) + 1]
                              = events[i].text

\* C6's case: a document with a raw HTML block and inline raw HTML, and no
\* math, was rendered to Ok.
C6_Witness ==
    /\ HtmlDone
    /\ result.status = "Ok"
    /\ \E i, j \in DOMAIN events :
          /\ events[i].ev = "Html" /\ events[i].text # <<>>
          /\ events[j].ev = "InlineHtml" /\ events[j].text # <<>>

(***************************************************************************)
(* What the claims on code blocks speak of.                                *)
(***************************************************************************)
IsCodeStart(e) == e.ev = "Start" /\ e.tag = "CodeBlock"

IsCodeEnd(e) == e.ev = "End" /\ e.tag = "CodeBlock"

\* The start of the code block that is open when the scan is at event p
\* (the events before p are read): the last start with no end after it;
\* 0 if none is open.
OpenStart(p) ==
    LET open == { j \in 1..(p - 1) :
                    /\ IsCodeStart(events[j])
                    /\ \A k \in (j + 1)..(p - 1) : ~IsCodeEnd(events[k]) }
    IN  IF open = {} THEN 0 ELSE CHOOSE j \in open : \A k \in open : k <= j

\* The language of a start event, as the start arm reads it.
LangOf(e) == IF e.num = 1 THEN e.text ELSE <<>>

\* The highlighting of the events j..i that are Text, fed one after the
\* other, line by line: each line is one span of the class `syntax`.
RECURSIVE SpansOfLines(_, _)
SpansOfLines(lines, syntax) ==
    IF lines = <<>> THEN <<>>
    ELSE <<"<span class=">> \o syntax \o <<">">> \o escape_html(Head(lines))
         \o <<"</span>">> \o SpansOfLines(Tail(lines), syntax)

RECURSIVE HighlightingOf(_, _, _)
HighlightingOf(j, i, syntax) ==
    IF j > i THEN <<>>
    ELSE (IF events[j].ev = "Text"
          THEN SpansOfLines(lines_with_endings(events[j].text, <<>>), syntax)
          ELSE <<>>)
         \o HighlightingOf(j + 1, i, syntax)

(***************************************************************************)
(* C11: in the HTML path no event between a code-block start and its end   *)
(* is passed on (neither the start nor the Text events); the block yields  *)
(* exactly one event, at its end event: one Html event that holds <pre>,   *)
(* the highlighting of all the Text of the block in order, and </pre>.     *)
(***************************************************************************)
C11_CodeBlockIsOnePreFragment ==
    call = "html" =>
        \A i \in 1..Len(emitted) :
            /\ IsCodeStart(events[i]) => emitted[i] = <<>>
            /\ (OpenStart(i) # 0 /\ ~IsCodeEnd(events[i])) => emitted[i] = <<>>
            /\ IsCodeEnd(events[i]) =>
                  LET j == OpenStart(i)
                  IN  /\ j # 0
                      /\ Len(Flatten(SubSeq(emitted, j, i))) = 1
                      /\ emitted[i] =
                            <<Event("Html",
                                    <<"<pre>">>
                                    \o HighlightingOf(j, i, find_syntax(LangOf(events[j])))
                                    \o <<"</pre>">>)>>

\* C11's case: a code block of two Text events, the first of one line, was
\* read to its end, and the pass has ended.
C11_Witness ==
    /\ HtmlDone
    /\ \E i \in 1..Len(emitted) :
          /\ IsCodeEnd(events[i])
          /\ i - OpenStart(i) = 3
          /\ events[i - 1].ev = "Text"
          /\ events[i - 2].ev = "Text"
          /\ Len(emitted[i][1].text) > 8

(***************************************************************************)
(* C12: in the HTML path current_code is Some exactly while the scan is    *)
(* between a code-block start and its end: None before the first start,    *)
(* Some at every end event (the expect never fails), None again after each *)
(* end, and None when the pass has ended.                                  *)
(***************************************************************************)
C12_CurrentCodeIsSomeInsideCodeBlocks ==
    call = "html" =>
        /\ pc = "run" => (current_code.some <=> OpenStart(pos) # 0)
        /\ (pc = "run" /\ pos <= Len(events) /\ IsCodeEnd(events[pos])) =>
              current_code.some
        /\ (pos > 1 /\ IsCodeEnd(events[pos - 1])) => ~current_code.some
        /\ pc = "done" =>
              /\ ~current_code.some
              /\ result.status # "Panic"
              /\ pos = Len(events) + 1

\* C12's case: a pass over two code blocks has ended.
C12_Witness ==
    /\ HtmlDone
    /\ ~current_code.some
    /\ Cardinality({ i \in DOMAIN events : IsCodeEnd(events[i]) }) = 2

(***************************************************************************)
(* C13: the syntax of a code block is looked up by the name of the         *)
(* language, then by file extension, then it is the plain-text syntax: a   *)
(* name wins over an extension, an unknown language and no language give   *)
(* plain text, and no info string makes the render fail.                   *)
(***************************************************************************)
ExpectedSyntax(lang) ==
    CASE lang = <<"Rust">> -> <<"Rust">>
      [] lang = <<"rs">> -> <<"Rust">>
      [] lang = <<"py">> -> <<"Python">>
      [] lang = <<"C">> -> <<"C">>
      [] lang = <<"zz">> -> <<"Plain Text">>
      [] lang = <<>> -> <<"Plain Text">>

C13_SyntaxByNameThenExtensionThenPlainText ==
    call = "html" =>
        /\ (pc = "run" /\ current_code.some) =>
              current_code.syntax = ExpectedSyntax(LangOf(events[OpenStart(pos)]))
        /\ \A i \in 1..Len(emitted) :
              IsCodeEnd(events[i]) =>
                 LET html == emitted[i][1].text
                 IN  /\ html[2] = "<span class="
                     /\ \A k \in 1..(Len(html) - 1) :
                           html[k] = "<span class=" =>
                              <<html[k + 1]>>
                                 = ExpectedSyntax(LangOf(events[OpenStart(i)]))
        /\ pc = "done" => result.status = "Ok"

\* C13's case: a fence tagged with an unknown language and a fence tagged
\* with a name that is also an extension were rendered.
C13_Witness ==
    /\ HtmlDone
    /\ result.status = "Ok"
    /\ \E i, j \in DOMAIN events :
          /\ IsCodeStart(events[i]) /\ events[i].text = <<"zz">>
          /\ IsCodeStart(events[j]) /\ events[j].text = <<"C">>

(***************************************************************************)
(* What the claims on the evaluations speak of.                            *)
(***************************************************************************)
\* The text the content-tree path hands to the evaluator for a math leaf.
ContentText(n) ==
    IF n.node = "InlineMath" THEN n.text
    ELSE <<"$", " ">> \o trim(n.text) \o <<" ", "$">>

IsMathLeaf(n) == n.node \in {"InlineMath", "DisplayMath"}

ContentTexts(ts) ==
    LET leaves == SelectSeq(PreOrder(ts), IsMathLeaf)
    IN  [i \in 1..Len(leaves) |-> ContentText(leaves[i])]

\* The document the HTML path compiles for a math event.
HtmlDocument(e) ==
    IF e.ev = "InlineMath" THEN inline_math_document(e.text)
    ELSE display_math_document(e.text)

HtmlDocuments(evs) ==
    LET spans == SelectSeq(evs, IsMath)
    IN  [i \in 1..Len(spans) |-> HtmlDocument(spans[i])]

IsPrefix(s, t) == Len(s) <= Len(t) /\ s = SubSeq(t, 1, Len(s))

(***************************************************************************)
(* C18: no retry.  In the HTML path the evaluator is handed, in order,     *)
(* the document of each math span read so far, each exactly once, and the  *)
(* diagnostics of a failed span are in the result once.  In the            *)
(* content-tree path the evaluator is handed a prefix of the math spans in *)
(* document order, each at most once; the span that fails is the last one  *)
(* handed over, and its diagnostics are the result.                        *)
(***************************************************************************)
C18_EachSpanIsEvaluatedOnce ==
    /\ call = "html" =>
          /\ evaluated = HtmlDocuments(SubSeq(events, 1, pos - 1))
          /\ errors = AllSpanDiags(SubSeq(events, 1, pos - 1))
          /\ pc = "done" =>
                /\ evaluated = HtmlDocuments(events)
                /\ result.status = "Err" => result.diags = AllSpanDiags(events)
    /\ ContentDone =>
          /\ IsPrefix(evaluated, ContentTexts(ast))
          /\ \A i \in 1..(Len(evaluated) - 1) : eval_diagnostics(evaluated[i]) = <<>>
          /\ (result.status = "Err" /\ result.error = "TypstError") =>
                /\ evaluated # <<>>
                /\ result.diags = eval_diagnostics(evaluated[Len(evaluated)])
          /\ result.status = "Ok" => evaluated = ContentTexts(ast)

\* C18's case: a content-tree call failed at its second span, after one
\* that evaluated.
C18_Witness ==
    /\ ContentDone
    /\ result.status = "Err"
    /\ result.error = "TypstError"
    /\ Len(evaluated) = 2
    /\ eval_diagnostics(evaluated[1]) = <<>>

(***************************************************************************)
(* C19: an error value that a renderer returns is UnsupportedHtml, or      *)
(* TypstError with a list of diagnostics that is not empty.                *)
(***************************************************************************)
C19_ErrorIsHtmlMarkerOrDiagnostics ==
    (pc = "done" /\ result.status = "Err") =>
        \/ result.error = "UnsupportedHtml" /\ result.diags = <<>>
        \/ result.error = "TypstError" /\ result.diags # <<>>

\* C19's case: html returned an error after a pass in which a span failed
\* and a span compiled.
C19_Witness ==
    /\ HtmlDone
    /\ result.status = "Err"
    /\ Len(result.diags) = 1
    /\ \E i \in DOMAIN events : IsMath(events[i]) /\ ~IsFailingSpan(events[i])

(***************************************************************************)
(* What the claims on tables speak of.                                     *)
(***************************************************************************)
IsTable(n) == n.node = "Group" /\ n.tag = "Table"

IsTableElem(c) == c.elem = "table"

TableGroups(ts) == SelectSeq(PreOrder(ts), IsTable)

TableElems(c) == SelectSeq(ContentPreOrder(<<c>>), IsTableElem)

\* The j-th body row of a Table group (its first child is the head).
Row(g, j) == g.children[j + 1]

RowCount(g) == Len(g.children) - 1

\* The number of cells in the body rows before the j-th.
RECURSIVE CellsBefore(_, _)
CellsBefore(g, j) ==
    IF j <= 1 THEN 0 ELSE CellsBefore(g, j - 1) + Len(Row(g, j - 1).children)

\* A Table group with a head and rows of plain cells, short or not.
IsPlainTable(n) ==
    /\ IsTable(n)
    /\ ~IsMalformedTable(n)
    /\ \A c \in Range(PreOrder(n.children)) :
          \/ c.node = "Text"
          \/ c.node = "Group" /\ c.tag \in {"TableHead", "TableRow", "TableCell"}
    /\ \A j \in 1..Len(n.children) :
          \A c \in Range(n.children[j].children) :
              c.node = "Group" /\ c.tag = "TableCell"

\* The grid row (from 0, below the header) of each cell of a table element
\* that follows the header.
Placement(t) == [k \in 1..(Len(t.children) - 1) |-> grid_row(k - 1, t.num)]

\* What C20 says of the shape of every rendered table: as many columns as
\* header cells, as many alignments, and the cells of the rows one by one,
\* with nothing added.
TableShape(g, t) ==
    /\ t.num = Len(g.children[1].children)
    /\ Len(t.align) = t.num
    /\ \A i \in 1..Len(t.align) :
          t.align[i] = (IF g.align[i] = "None" THEN "Auto" ELSE g.align[i])
    /\ t.children[1].elem = "table.header"
    /\ Len(t.children[1].children) = t.num
    /\ Len(t.children) = 1 + CellsBefore(g, RowCount(g) + 1)
    /\ \A j \in 1..RowCount(g) :
          \A c \in 1..Len(Row(g, j).children) :
              t.children[1 + CellsBefore(g, j) + c]
                 = render_tree(Row(g, j).children[c]).val

\* A table of plain cells renders, and every rendered table has the shape.
TablesRender(shape_and_rows(_, _)) ==
    ContentDone =>
        /\ (\A i \in DOMAIN ast : IsPlainTable(ast[i])) => result.status = "Ok"
        /\ result.status = "Ok" =>
              /\ Len(TableElems(result.val)) = Len(TableGroups(ast))
              /\ \A k \in 1..Len(TableGroups(ast)) :
                    shape_and_rows(TableGroups(ast)[k], TableElems(result.val)[k])

(***************************************************************************)
(* C20, as stated: a rendered Table has as many columns as header cells    *)
(* and as many alignments; a body row with fewer cells than the header is  *)
(* rendered without padding and without an error, and each body row still  *)
(* occupies its own table row: the cells of the j-th row lie in the j-th   *)
(* row below the header.                                                   *)
(* This does not hold: the cells of all rows are one flat list.            *)
(***************************************************************************)
RowsKeepTheirRow(g, t) ==
    /\ TableShape(g, t)
    /\ \A j \in 1..RowCount(g) :
          \A c \in 1..Len(Row(g, j).children) :
              Placement(t)[CellsBefore(g, j) + c] = j - 1

RowsAreOneFlatList(g, t) ==
    /\ TableShape(g, t)
    /\ \A j \in 1..RowCount(g) :
          \A c \in 1..Len(Row(g, j).children) :
              Placement(t)[CellsBefore(g, j) + c]
                 = (CellsBefore(g, j) + c - 1) \div Len(g.children[1].children)

SameInput(a, b) ==
    /\ a.call = b.call
    /\ a.ast = b.ast
    /\ a.call = "content" => a.world = b.world

C14_SameInputSameResult ==
    \A a \in Ended : \A b \in Ended : SameInput(a, b) => a.result = b.result

(***************************************************************************)
(* C15  Parity: of a text with no math span and no raw HTML, content and   *)
(* html both end Ok, and the two outputs describe the same blocks: the     *)
(* same block constructs in the same order, the same heading levels, the   *)
(* same rows and cells of every table, the same kind of every list, its    *)
(* items in the same order and with the same numbers.                      *)
(* An image is such a text, and content panics on it (todo!()).            *)
(***************************************************************************)
RECURSIVE IsPlain(_)
\* No math span and no raw HTML in the trees ts.
IsPlain(ts) ==
    \A i \in 1..Len(ts) :
        /\ ts[i].node \notin {"InlineMath", "DisplayMath", "Html", "InlineHtml"}
        /\ ts[i].node = "Group" => ts[i].tag # "HtmlBlock" /\ IsPlain(ts[i].children)

RECURSIVE HasImage(_)
HasImage(ts) ==
    \E i \in 1..Len(ts) :
        ts[i].node = "Group" /\ (ts[i].tag = "Image" \/ HasImage(ts[i].children))

\* The children of a sequence between two paragraph breaks.
IsBetweenParbreaks(e) ==
    /\ e.elem = "sequence"
    /\ Len(e.children) >= 2
    /\ e.children[1].elem = "parbreak"
    /\ e.children[Len(e.children)].elem = "parbreak"

Between(e) == SubSeq(e.children, 2, Len(e.children) - 1)

Min(a, b) == IF a < b THEN a ELSE b

\* The rows that n cells fill in a table of cols columns.
RECURSIVE RowsOfCells(_, _)
RowsOfCells(n, cols) ==
    IF n <= 0 \/ cols <= 0 THEN <<>>
    ELSE <<"tr">> \o [i \in 1..Min(n, cols) |-> "td"] \o <<"/tr">>
         \o RowsOfCells(n - cols, cols)

\* The blocks that a content value describes, as a sequence of marks.
RECURSIVE ContentBlocks(_)
RECURSIVE ContentBlocksOfAll(_)
ContentBlocks(e) ==
    CASE e.elem = "heading" -> <<"h", NumStr(e.num), "/h">>
      [] e.elem = "sequence" ->
            IF IsBetweenParbreaks(e)
            THEN <<"p">> \o ContentBlocksOfAll(Between(e)) \o <<"/p">>
            ELSE ContentBlocksOfAll(e.children)
      [] e.elem = "figure" ->
            LET c == e.children[1]
            IN  CASE c.elem = "align" ->
                        <<"quote">>
                        \o (IF IsBetweenParbreaks(c.children[1])
                            THEN ContentBlocksOfAll(Between(c.children[1]))
                            ELSE ContentBlocks(c.children[1]))
                        \o <<"/quote">>
                  [] c.elem = "raw" -> <<"code">>
                  [] c.elem = "table" ->
                        <<"table", "tr">>
                        \o [i \in 1..Len(c.children[1].children) |-> "th"]
                        \o <<"/tr">>
                        \o RowsOfCells(Len(c.children) - 1, c.num)
                        \o <<"/table">>
                  [] OTHER -> <<>>
      [] e.elem = "enum" ->
            <<"ol", IF e.children = <<>> THEN "1" ELSE NumStr(e.children[1].num)>>
            \o ContentBlocksOfAll(e.children) \o <<"/ol">>
      [] e.elem = "list" -> <<"ul">> \o ContentBlocksOfAll(e.children) \o <<"/ul">>
      [] e.elem \in {"enum.item", "list.item"} ->
            <<"li">> \o ContentBlocksOfAll(e.children) \o <<"/li">>
      [] e.elem = "line" -> <<"hr">>
      [] OTHER -> <<>>

ContentBlocksOfAll(es) ==
    IF es = <<>> THEN <<>>
    ELSE ContentBlocks(Head(es)) \o ContentBlocksOfAll(Tail(es))

\* The items of every numbered list of a content value are numbered one
\* after the other, as a browser numbers the items of an <ol>.
RECURSIVE NumberedInOrder(_)
NumberedInOrder(e) ==
    /\ e.elem = "enum" =>
          \A i \in 1..Len(e.children) : e.children[i].num = e.children[1].num + i - 1
    /\ \A i \in 1..Len(e.children) : NumberedInOrder(e.children[i])

\* The blocks that the i-th token of an HTML string opens or closes.
HtmlMark(s, i) ==
    CASE s[i] = "<p>" -> <<"p">>
      [] s[i] = "</p>" -> <<"/p">>
      [] s[i] = "<h" -> <<"h", s[i + 1]>>
      [] s[i] = "</h" -> <<"/h">>
      [] s[i] = "<blockquote>" -> <<"quote">>
      [] s[i] = "</blockquote>" -> <<"/quote">>
      [] s[i] \in {"<pre>", "<pre><code>", "<pre><code class=language-"} -> <<"code">>
      [] s[i] = "<ul>" -> <<"ul">>
      [] s[i] = "</ul>" -> <<"/ul">>
      [] s[i] = "<ol>" -> <<"ol", "1">>
      [] s[i] = "<ol start=" -> <<"ol", s[i + 1]>>
      [] s[i] = "</ol>" -> <<"/ol">>
      [] s[i] = "<li>" -> <<"li">>
      [] s[i] = "</li>" -> <<"/li">>
      [] s[i] = "<table>" -> <<"table">>
      [] s[i] = "</tbody></table>" -> <<"/table">>
      [] s[i] \in {"<thead><tr>", "<tr>"} -> <<"tr">>
      [] s[i] \in {"</tr></thead><tbody>", "</tr>"} -> <<"/tr">>
      [] s[i] = "<th" -> <<"th">>
      [] s[i] = "<td" -> <<"td">>
      [] s[i] = "<hr />" -> <<"hr">>
      [] OTHER -> <<>>

\* The blocks that an HTML string describes, as a sequence of marks.
HtmlBlocks(s) == Flatten([i \in 1..Len(s) |-> HtmlMark(s, i)])

SameBlocks(a, b) ==
    /\ ContentBlocks(a.result.val) = HtmlBlocks(b.result.val)
    /\ NumberedInOrder(a.result.val)

ParityOf(texts) ==
    \A a \in Ended :
        a.ast \in texts =>
            /\ a.result.status = "Ok"
            /\ \A b \in Ended :
                  a.call = "content" /\ b.call = "html" /\ b.ast = a.ast
                      => SameBlocks(a, b)

PlainTexts == {t \in CallDocs : IsPlain(t)}

C15_PlainTextsRenderAlike == ParityOf(PlainTexts)

\* Of the plain texts without an image the two outputs do describe the
\* same blocks.
C15_PlainTextsWithoutImageRenderAlike ==
    ParityOf({t \in PlainTexts : ~HasImage(t)})

\* Both renderers have ended on a plain text of several blocks.
C15_BothEndedOk ==
    \E a \in Ended : \E b \in Ended :
        /\ a.call = "content" /\ b.call = "html" /\ b.ast = a.ast
        /\ a.ast \in PlainTexts
        /\ a.result.status = "Ok" /\ b.result.status = "Ok"
        /\ Len(ContentBlocks(a.result.val)) > 10

(***************************************************************************)
(* C16  Every math span is evaluated in an environment of its own: what    *)
(* the evaluation of one span writes (the names it defines, the files its  *)
(* world keeps) is not there when another span is evaluated.               *)
(* html makes a world for every span, with no file in its map, and drops   *)
(* it; what the span yields is what that world alone yields.  content      *)
(* evaluates every span in a scope of its own and leaves the map of the    *)
(* world it was passed as it was.                                          *)
(***************************************************************************)
\* The positions of the math events of the stream, in order.
MathAt == SelectSeq([k \in 1..Len(events) |-> k], LAMBDA k : IsMath(events[k]))

\* A world as new makes it at some date, for the document f.
IsNewWorld(w, f) == w.source = f /\ w.files = {} /\ w.time \in 1..clock

SpanHasItsOwnWorld(i) ==
    LET sw == span_worlds[i]
        e == events[MathAt[i]]
    IN  /\ IsNewWorld(sw.new, HtmlDocument(e))
        /\ sw.disk = sw.dropped.files
        /\ emitted[MathAt[i]] =
              math_span(IF e.ev = "InlineMath" THEN "InlineHtml" ELSE "Html",
                        <<>>, sw.new).emit

RECURSIVE SumOver(_, _)
SumOver(f, S) ==
    IF S = {} THEN 0
    ELSE LET x == CHOOSE y \in S : TRUE IN f[x] + SumOver(f, S \ {x})

\* How often the syntaxes have been loaded in the process.
SyntaxLoads == SumOver([t \in DOMAIN threads |-> threads[t].loads], DOMAIN threads)

FontsInitializedOnceBeforeRead ==
    /\ FONTS.inits <= 1
    /\ FONTS.state = "ready" <=> FONTS.inits = 1
    /\ \A t \in DOMAIN threads :
          /\ threads[t].read \subseteq {"fonts"}
          /\ threads[t].at = "read" => FONTS.state = "ready"

FontsNeverModified ==
    [][FONTS.state = "ready" => FONTS' = FONTS]_vars

SyntaxSetIsOfTheCall ==
    \A t \in DOMAIN threads :
        /\ threads[t].loads = (IF threads[t].call = "html" /\ threads[t].at # "start"
                               THEN 1 ELSE 0)
        /\ threads[t].at \in {"events", "init", "blocked", "read"}
              => threads[t].syntax_set = "loaded"

IsBlank(c) == c \in {" ", "\n"}

\* s without the blanks at its two ends.
Trimmed(s) ==
    LET inked == {i \in 1..Len(s) : ~IsBlank(s[i])}
    IN  IF inked = {} THEN <<>>
        ELSE SubSeq(s, CHOOSE i \in inked : \A j \in inked : i <= j,
                       CHOOSE i \in inked : \A j \in inked : j <= i)

\* What the evaluator is to be called with for the math leaf n.
ExpectedCall(n) ==
    IF n.node = "InlineMath"
    THEN [text |-> n.text, mode |-> 0, scope |-> "Scope::new()"]
    ELSE [text |-> <<"$", " ">> \o Trimmed(n.text) \o <<" ", "$">>, mode |-> 1,
          scope |-> "library().math.scope()"]

\* The places of a text the evaluator reports, each with one diagnostic.
FailingOffsets(text) ==
    {i \in 1..Len(text) :
        \/ text[i] \in {"(", "#read"}
        \/ text[i] = "#u" /\ \A j \in 1..(i - 1) : text[j] # "#let"}

HoldsAllDiagnosticsOf(diags, text) ==
    /\ Len(diags) = Cardinality(FailingOffsets(text))
    /\ \A i \in 1..Len(diags) : diags[i].offset \in FailingOffsets(text)
    /\ \A i \in 1..(Len(diags) - 1) : diags[i].offset < diags[i + 1].offset

IsEquation(c) == c.elem = "equation"

C24_MathIsEvaluatedAsItsKindSays ==
    ContentDone =>
        LET leaves == SelectSeq(PreOrder(ast), IsMathLeaf)
            eqs == SelectSeq(ContentPreOrder(<<result.val>>), IsEquation)
        IN  /\ Len(evaluated) <= Len(leaves)
            /\ \A i \in 1..Len(evaluated) :
                  evaluated[i] = ExpectedCall(leaves[i]).text
            /\ result.status = "Ok" =>
                  /\ Len(eqs) = Len(leaves)
                  /\ \A i \in 1..Len(eqs) :
                        /\ eqs[i].text = evaluated_text(ExpectedCall(leaves[i]).text, world)
                        /\ eqs[i].num = ExpectedCall(leaves[i]).mode
                        /\ eqs[i].align = <<ExpectedCall(leaves[i]).scope>>
                        /\ eqs[i].children = <<>>
            /\ (result.status = "Err" /\ result.error = "TypstError") =>
                  /\ evaluated # <<>>
                  /\ result.diags # <<>>
                  /\ HoldsAllDiagnosticsOf(result.diags, evaluated[Len(evaluated)])

\* A display math with blanks around it and two faults has failed, after an
\* inline math with blanks around it was evaluated as it stands.
C24_Witness ==
    /\ ContentDone
    /\ result.status = "Err"
    /\ result.error = "TypstError"
    /\ Len(result.diags) = 2
    /\ Len(evaluated) = 2
    /\ evaluated[1] = MathPadded
    /\ evaluated[2] = <<"$", " ", "(", "#read", " ", "$">>

(***************************************************************************)
(* C25  In the content-tree path the text of a code block is the texts of  *)
(* its Text children, one after the other, and nothing else; it has a      *)
(* language exactly when the block is fenced with an info string that is   *)
(* not empty; a child that is not a Text is an internal fault (a panic),   *)
(* and nothing of such a block is in any output.                           *)
(***************************************************************************)
IsCodeBlock(n) == n.node = "Group" /\ n.tag = "CodeBlock"

HasOnlyText(n) == \A i \in 1..Len(n.children) : n.children[i].node = "Text"

IsBadCodeBlock(n) == IsCodeBlock(n) /\ ~HasOnlyText(n)

IsRawBlock(c) == c.elem = "raw" /\ c.num = 1

TextsOf(n) == Flatten([i \in 1..Len(n.children) |-> n.children[i].text])

C25_CodeBlockIsItsTexts ==
    ContentDone =>
        LET blocks == SelectSeq(PreOrder(ast), IsCodeBlock)
            raws == SelectSeq(ContentPreOrder(<<result.val>>), IsRawBlock)
        IN  /\ result.status = "Ok" =>
                  /\ \A i \in 1..Len(blocks) : HasOnlyText(blocks[i])
                  /\ Len(raws) = Len(blocks)
                  /\ \A i \in 1..Len(blocks) :
                        /\ raws[i].text = TextsOf(blocks[i])
                        /\ raws[i].children = <<>>
                        /\ raws[i].align # <<>> <=>
                              (blocks[i].num = 1 /\ blocks[i].text # <<>>)
                        /\ raws[i].align # <<>> => raws[i].align = blocks[i].text
            /\ (ast # <<>> /\ IsBadCodeBlock(ast[1])) =>
                  /\ result.status = "Panic"
                  /\ result.visited = <<"CodeBlock">>
                  /\ result.evals = <<>>

\* A fenced block of two texts and a block with no fence have been
\* rendered.
C25_Witness ==
    /\ ContentDone
    /\ result.status = "Ok"
    /\ \E i \in 1..Len(ast) : \E j \in 1..Len(ast) :
          /\ IsCodeBlock(ast[i]) /\ Len(ast[i].children) = 2 /\ ast[i].text # <<>>
          /\ IsCodeBlock(ast[j]) /\ ast[j].num = 0

\* A block with a child that is not a Text has been rendered.
C25_BadBlockSeen == ContentDone /\ ast # <<>> /\ IsBadCodeBlock(ast[1])

(***************************************************************************)
(* C26  In the content-tree path, once a node has failed, no node after it *)
(* in document order is rendered, and no math span after it is handed to   *)
(* the evaluator.                                                          *)
(***************************************************************************)
AllChildren(ts) == Flatten([i \in 1..Len(ts) |-> ts[i].children])

\* The nodes of a forest that render_tree is called on when nothing fails,
\* in document order: the head and the rows of a table and the items of a
\* numbered list are taken apart by the arm of their parent, the texts of a
\* code block are read by render_ast_to_text.
RECURSIVE Rendered(_)
Rendered(ts) ==
    IF ts = <<>> THEN <<>>
    ELSE LET n == Head(ts)
             below ==
                 CASE n.node # "Group" -> <<>>
                   [] n.node = "Group" /\ n.tag = "Table" -> AllChildren(n.children)
                   [] n.node = "Group" /\ n.tag = "List" /\ n.ord # <<>> ->
                         AllChildren(n.children)
                   [] n.node = "Group" /\ n.tag = "CodeBlock" -> <<>>
                   [] OTHER -> n.children
         IN  <<n>> \o Rendered(below) \o Rendered(Tail(ts))

IsParserBuilt(ts) == \A i \in 1..Len(ts) : ts[i] \in ParserBlocks

C26_NothingIsRenderedAfterAFailure ==
    (ContentDone /\ IsParserBuilt(ast)) =>
        LET order == Rendered(ast)
            seen == SubSeq(order, 1, Len(result.visited))
        IN  /\ Len(result.visited) <= Len(order)
            /\ \A i \in 1..Len(result.visited) : result.visited[i] = Label(order[i])
            /\ evaluated = [i \in 1..Len(SelectSeq(seen, IsMathLeaf)) |->
                              ContentText(SelectSeq(seen, IsMathLeaf)[i])]
            /\ result.status = "Ok" => Len(result.visited) = Len(order)
            /\ result.status # "Ok" =>
                  /\ result.visited # <<>>
                  /\ FailsAlone(order[Len(result.visited)])
                  /\ \A i \in 1..(Len(result.visited) - 1) : ~FailsAlone(order[i])

\* A math span has failed and a math span after it was never evaluated.
C26_Witness ==
    /\ ContentDone
    /\ IsParserBuilt(ast)
    /\ result.status = "Err"
    /\ result.error = "TypstError"
    /\ Len(evaluated) < Len(ContentTexts(ast))
    /\ Len(result.visited) < Len(Rendered(ast))

\* ---------------------------------------------------------------------------
\* Config::hash (lib.rs).  A u64 is four limbs of sixteen bits, the most
\* significant first, so that no step of the arithmetic leaves the integers
\* of the model checker.
\* ---------------------------------------------------------------------------

\* hash: u64, sixty-four bits, is four limbs of 2^16.
Limb == 65536

ZERO == <<0, 0, 0, 0>>

\* No renderer is called, on no thread.
NoRender ==
    /\ ast = <<>>
    /\ call = "none"
    /\ events = <<>>
    /\ pc = "done"
    /\ pos = 1
    /\ errors = <<>>
    /\ current_code = NoCode
    /\ emitted = <<>>
    /\ evaluated = <<>>
    /\ result = NoResult
    /\ clock = 1
    /\ world = NoWorld
    /\ span_worlds = <<>>
    /\ history = EmptyBag
    /\ FONTS = NoFonts
    /\ threads = NoThreads

\* u64::MAX
MAX == <<65535, 65535, 65535, 65535>>

RECURSIVE long_division(_, _, _, _, _)
\* hash / n and hash % n by long division over the limbs from place i on,
\* with remainder r carried in and the quotient limbs q found so far.
long_division(hash, n, i, r, q) ==
    IF i > Len(hash) THEN [quot |-> q, rem |-> r]
    ELSE LET cur == r * Limb + hash[i]
         IN long_division(hash, n, i + 1, cur % n, Append(q, cur \div n))

\* hash / n
div_u64(hash, n) == long_division(hash, n, 1, 0, <<>>).quot

\* hash % n
rem_u64(hash, n) == long_division(hash, n, 1, 0, <<>>).rem

N == 36

ALPHABET ==
    <<"a", "b", "c", "d", "e", "f", "g", "h", "i", "j", "k", "l", "m", "n",
      "o", "p", "q", "r", "s", "t", "u", "v", "w", "x", "y", "z", "0", "1",
      "2", "3", "4", "5", "6", "7", "8", "9">>

\* out.push(c) written at the wrong end.
push_front(out, c) == <<c>> \o out

\* String::push
push(out, c) == Append(out, c)

\* const hash of Default for Config: 3141592653589793238
DefaultHash == <<11161, 11743, 41522, 18902>>

\* The stored hashes the calls are made with: the limbs at their ends and
\* around N, the default hash, and the two values around 36^12, where the
\* string gets its thirteenth character.
HashValues ==
    {<<a, b, c, d>> : a, b, c, d \in {0, 35, 36, 65535}}
        \cup {DefaultHash, <<16834, 7352, 57599, 65535>>,
              <<16834, 7352, 57600, 0>>}

OtherHashValues == {ZERO, <<0, 0, 0, 36>>, DefaultHash}

\* The calls of from_str, of hash and of the methods of a language that
\* texts and disk are given to; nothing has been called.
Given(texts, disk) ==
    [at |-> "idle", texts |-> texts, disk |-> disk, results |-> <<>>,
     configs |-> <<>>, hash |-> ZERO, out |-> <<>>, returned |-> <<>>,
     called |-> <<>>]

\* A Config, of which hash() reads the hash only.
ConfigOfHash(h) == [hash |-> h]

\* a.hash() and then b.hash(), as tests/hashing.rs calls them.
InitHash ==
    /\ NoRender
    /\ pdf = NoPdf
    /\ config \in {[Given(<<>>, <<>>) EXCEPT
                        !.configs = <<ConfigOfHash(a), ConfigOfHash(b)>>] :
                       a \in HashValues, b \in OtherHashValues}

\* let mut hash = self.hash; let mut out = String::with_capacity(14);
hash ==
    /\ config.at = "idle"
    /\ Len(config.results) = Len(config.texts)
    /\ Len(config.returned) < Len(config.configs)
    /\ config' = [config EXCEPT
                      !.at = "loop",
                      !.hash = config.configs[Len(config.returned) + 1].hash,
                      !.out = <<>>]
    /\ UNCHANGED <<ast, call, events, pc, pos, errors, current_code, emitted,
                   evaluated, result, world, span_worlds, clock, history,
                   FONTS, threads, pdf>>

\* One turn of the loop of hash(), and the return of out after the break.
hash_loop ==
    /\ config.at = "loop"
    /\ LET n == rem_u64(config.hash, N)
           h == div_u64(config.hash, N)
           out == push(config.out, ALPHABET[n + 1])
       IN config' = [config EXCEPT
                         !.hash = h,
                         !.out = out,
                         !.at = IF h = ZERO THEN "idle" ELSE "loop",
                         !.returned = IF h = ZERO THEN Append(@, out) ELSE @]
    /\ UNCHANGED <<ast, call, events, pc, pos, errors, current_code, emitted,
                   evaluated, result, world, span_worlds, clock, history,
                   FONTS, threads, pdf>>

NextHash == hash \/ hash_loop

\* A call that has started goes on until it returns.
SpecHash == InitHash /\ [][NextHash]_vars /\ WF_vars(NextHash)

\* ---------------------------------------------------------------------------
\* Config::from_str (lib.rs), RawOrImport (roi.rs).  A text is the sequence
\* of its lines; what a line of TOML says is looked up, as toml_edit reads it.
\* A table of a document is named by its path from the root, a document is
\* the set of its tables and the set of its entries <<path, key, value>>.
\* Option<T> is a sequence of no or one T.
\* ---------------------------------------------------------------------------

RECURSIVE mul_add(_, _, _, _)
\* v * m + d over the limbs of v from place i down to the first; v is long
\* enough for the product.
mul_add(v, m, d, i) ==
    IF i = 0 THEN v
    ELSE LET t == v[i] * m + d
         IN mul_add([v EXCEPT ![i] = t % Limb], m, t \div Limb, i - 1)


Blank == [kind |-> "blank", path |-> <<>>, entries |-> {}]

Header(path) == [kind |-> "header", path |-> path, entries |-> {}]

\* key = value
KeyValue(key, value) ==
    [kind |-> "pair", path |-> <<>>, entries |-> {<<<<>>, key, value>>}]

\* key = { k = v, .. }
InlineTable(key, pairs) ==
    [kind |-> "pair", path |-> <<key>>,
     entries |-> {<<<<key>>, kv[1], kv[2]>> : kv \in pairs}]

Malformed == [kind |-> "bad", path |-> <<>>, entries |-> {}]

OcamlRun == {<<"run", "ocaml s.ml">>, <<"source_file", "s.ml">>}

\* What a line says.
line(l) ==
    CASE l \in {"", "   ", "# comment"} -> Blank
      [] l \in {"port = 80", "port  =  80"} -> KeyValue("port", "80")
      [] l = "[setup]" -> Header(<<"setup">>)
      [] l = "install = 'apt'" -> KeyValue("install", "apt")
      [] l = "install = { import = 'install.sh' }" ->
            InlineTable("install", {<<"import", "install.sh">>})
      [] l = "setup = { import = 'setup.toml' }" ->
            InlineTable("setup", {<<"import", "setup.toml">>})
      [] l = "[languages]" -> Header(<<"languages">>)
      [] l = "python3 = 'latest'" -> KeyValue("python3", "latest")
      [] l = "python3 = '*'" -> KeyValue("python3", "*")
      [] l = "python3 = '3'" -> KeyValue("python3", "3")
      [] l = "java = '21'" -> KeyValue("java", "21")
      [] l = "java = '8'" -> KeyValue("java", "8")
      [] l = "java = '23'" -> KeyValue("java", "23")
      [] l = "cobol = 'latest'" -> KeyValue("cobol", "latest")
      [] l = "ocaml = { run = 'ocaml s.ml', source_file = 's.ml' }" ->
            InlineTable("ocaml", OcamlRun)
      [] l = "ocaml = { name = 'OCaml', run = 'ocaml s.ml', source_file = 's.ml' }" ->
            InlineTable("ocaml", OcamlRun \cup {<<"name", "OCaml">>})
      [] l = "languages = { import = 'languages.toml' }" ->
            InlineTable("languages", {<<"import", "languages.toml">>})
      [] l = "[accounts]" -> Header(<<"accounts">>)
      [] l = "admins = []" -> KeyValue("admins", "[]")
      [] l = "competitors = []" -> KeyValue("competitors", "[]")
      [] l = "[packet]" -> Header(<<"packet">>)
      [] l = "title = 'T'" -> KeyValue("title", "T")
      [] l = "problems = []" -> KeyValue("problems", "[]")
      [] OTHER -> Malformed

EmptyDocument == [ok |-> TRUE, tables |-> {<<>>}, entries |-> {}]

NoDocument == [ok |-> FALSE, tables |-> {}, entries |-> {}]

RECURSIVE toml_lines(_, _, _, _)
\* The document of the lines of content from place i on, read into table
\* cur of doc: a table or a key is not defined twice.
toml_lines(text, i, cur, doc) ==
    IF i > Len(text) THEN doc
    ELSE LET l == line(text[i])
             at == {<<cur \o e[1], e[2], e[3]>> : e \in l.entries}
         IN CASE l.kind = "blank" -> toml_lines(text, i + 1, cur, doc)
              [] l.kind = "header" ->
                    IF l.path \in doc.tables THEN NoDocument
                    ELSE toml_lines(text, i + 1, l.path,
                                    [doc EXCEPT !.tables = @ \cup {l.path}])
              [] l.kind = "pair" ->
                    IF \/ \E e \in at, d \in doc.entries :
                             e[1] = d[1] /\ e[2] = d[2]
                       \/ l.path # <<>> /\ cur \o l.path \in doc.tables
                       \/ \E d \in doc.entries : d[1] \o <<d[2]>> = cur \o l.path
                    THEN NoDocument
                    ELSE toml_lines(text, i + 1, cur,
                                    [doc EXCEPT
                                         !.tables = @ \cup {cur \o l.path},
                                         !.entries = @ \cup at])
              [] OTHER -> NoDocument

\* toml_edit::de::from_str, up to the document.
toml_from_str(text) == toml_lines(text, 1, <<>>, EmptyDocument)

\* The keys of table path of doc: of its entries and of its tables.
keys(doc, path) ==
    {e[2] : e \in {d \in doc.entries : d[1] = path}}
        \cup {t[Len(t)] : t \in {u \in doc.tables :
                 Len(u) = Len(path) + 1 /\ SubSeq(u, 1, Len(path)) = path}}

\* The value of key in table path of doc.
value(doc, path, key) ==
    (CHOOSE e \in doc.entries : e[1] = path /\ e[2] = key)[3]

\* The key of table path of doc is there and is a string, a number or a list.
is_value(doc, path, key) ==
    \E e \in doc.entries : e[1] = path /\ e[2] = key

DeOk(v) == [ok |-> TRUE, value |-> <<v>>]

DeErr == [ok |-> FALSE, value |-> <<>>]

\* Import::deserialize(de) is Ok: a table with the key import and no other.
is_import(doc, path) ==
    /\ path \in doc.tables
    /\ keys(doc, path) = {"import"}
    /\ is_value(doc, path, "import")

\* A read that takes a file that is not there for an empty one.
read_to_string_or_empty(disk, path) ==
    IF path \in DOMAIN disk THEN DeOk(disk[path]) ELSE DeOk(<<>>)

\* std::fs::read_to_string
read_to_string(disk, path) ==
    IF path \in DOMAIN disk THEN DeOk(disk[path]) ELSE DeErr

\* Deserialize for RawOrImport<T, Deser>, of table path of doc, up to the
\* call of the deserializer of T: the document and the table that T is
\* deserialized from, those of the file or those in place, or the error of
\* the file.
RawOrImport_Deser(doc, path, disk) ==
    IF is_import(doc, path)
    THEN LET text == read_to_string(disk, value(doc, path, "import"))
         IN IF ~text.ok THEN [ok |-> FALSE, doc |-> NoDocument, path |-> <<>>]
            ELSE LET x == toml_from_str(text.value[1])
                 IN [ok |-> x.ok, doc |-> x, path |-> <<>>]
    ELSE [ok |-> TRUE, doc |-> doc, path |-> path]

\* Deserialize for RawOrImport<S, Raw> with S = String, of key of table path
\* of doc: content.parse() is the content.
RawOrImport_Raw(doc, path, key, disk) ==
    IF is_import(doc, path \o <<key>>)
    THEN read_to_string(disk, value(doc, path \o <<key>>, "import"))
    ELSE IF is_value(doc, path, key) THEN DeOk(<<value(doc, path, key)>>)
    ELSE DeErr

\* The Setup of a table with the keys `has`, of which install and init are
\* deserialized as given.
Setup(has, install, init) ==
    IF \/ ~(has \subseteq {"install", "init"})
       \/ "install" \in has /\ ~install.ok
       \/ "init" \in has /\ ~init.ok
    THEN DeErr
    ELSE DeOk([install |-> IF "install" \in has THEN install.value ELSE <<>>,
               init |-> IF "init" \in has THEN init.value ELSE <<>>])

\* Deserialize for Setup
Setup_deserialize(doc, path, disk) ==
    IF path \notin doc.tables THEN DeErr
    ELSE Setup(keys(doc, path), RawOrImport_Raw(doc, path, "install", disk),
               RawOrImport_Raw(doc, path, "init", disk))

\* Deserialize for Accounts, of accounts without users
Accounts_deserialize(doc, path, disk) ==
    IF \/ path \notin doc.tables
       \/ keys(doc, path) # {"admins", "competitors"}
       \/ \E k \in keys(doc, path) : ~is_value(doc, path, k)
    THEN DeErr
    ELSE DeOk([admins |-> <<>>, competitors |-> <<>>])

\* Deserialize for Packet, of a packet without preamble and problems
Packet_deserialize(doc, path, disk) ==
    IF \/ path \notin doc.tables
       \/ keys(doc, path) # {"title", "problems"}
       \/ \E k \in keys(doc, path) : ~is_value(doc, path, k)
    THEN DeErr
    ELSE DeOk([title |-> value(doc, path, "title"), preamble |-> <<>>,
               problems |-> <<>>])

LanguageVersion(key, build, run, install_command) ==
    [key |-> key, build |-> build, run |-> run,
     install_command |-> install_command, init_command |-> <<>>]

\* static BUILTINS; the versions of a language are in the order in which
\* they are written.
BUILTINS ==
    [b \in {"python3", "java", "javascript", "rust"} |->
        CASE b = "python3" ->
                <<LanguageVersion("latest", <<>>, "python3 ./solution.py",
                                  <<"dnf install python3">>)>>
          [] b = "java" ->
                <<LanguageVersion("8", <<"javac Solution.java">>,
                                  "java Solution",
                                  <<"dnf install java-1.8.0-openjdk-devel">>),
                  LanguageVersion("11", <<"javac Solution.java">>,
                                  "java Solution",
                                  <<"dnf install java-11-openjdk-devel">>),
                  LanguageVersion("21", <<"javac Solution.java">>,
                                  "java Solution",
                                  <<"dnf install java-21-openjdk-devel">>)>>
          [] b = "javascript" ->
                <<LanguageVersion("latest", <<>>, "nodejs solution.js",
                                  <<"dnf install nodejs20">>)>>
          [] OTHER ->
                <<LanguageVersion("latest", <<"rustc -o solution solution.rs">>,
                                  "./solution", <<"dnf install rust">>)>>]

\* Version::Latest is no version, Version::Specific(v) is one.
Latest == <<>>

Specific(v) == <<v>>

\* bil.versions.contains_key(v)
contains_key(versions, v) == \E i \in 1..Len(versions) : versions[i].key = v

\* has_version, which finds every version.
has_any_version(language, version) == TRUE

\* BuiltInLanguage::has_version(..).is_ok()
has_version(language, version) ==
    version = Latest \/ contains_key(BUILTINS[language], version[1])

BuiltIn(language, version) ==
    [kind |-> "BuiltIn", language |-> language, version |-> version,
     raw_name |-> "", name |-> "", build |-> <<>>, run |-> "",
     source_file |-> ""]

Custom(raw_name, name, build, run, source_file) ==
    [kind |-> "Custom", language |-> "", version |-> Latest,
     raw_name |-> raw_name, name |-> name, build |-> build, run |-> run,
     source_file |-> source_file]

\* Language::raw_name
raw_name(l) == IF l.kind = "BuiltIn" THEN l.language ELSE l.raw_name

\* The TomlLanguage of key of table path of doc: Latest of the strings
\* latest and *, Version(v) of another string v, Custom of a table with run
\* and source_file and no key but name and build besides.
TomlLanguage(doc, path, key) ==
    LET t == path \o <<key>>
    IN IF is_value(doc, path, key)
       THEN IF value(doc, path, key) \in {"latest", "*"}
            THEN DeOk([variant |-> "Latest"])
            ELSE DeOk([variant |-> "Version", v |-> value(doc, path, key)])
       ELSE IF /\ {"run", "source_file"} \subseteq keys(doc, t)
               /\ keys(doc, t) \subseteq {"name", "build", "run", "source_file"}
               /\ \A k \in keys(doc, t) : is_value(doc, t, k)
            THEN DeOk([variant |-> "Custom",
                       name |-> IF "name" \in keys(doc, t)
                                THEN <<value(doc, t, "name")>> ELSE <<>>,
                       build |-> IF "build" \in keys(doc, t)
                                 THEN <<value(doc, t, "build")>> ELSE <<>>,
                       run |-> value(doc, t, "run"),
                       source_file |-> value(doc, t, "source_file")])
            ELSE DeErr

\* name.unwrap_or_else(|| key.clone()) that forgets the key.
unwrap_or_empty(name, key) == IF name # <<>> THEN name[1] ELSE ""

\* name.unwrap_or_else(|| key.clone())
unwrap_or_else(name, key) == IF name # <<>> THEN name[1] ELSE key

\* The body of the loop of visit_map for one entry of the map.
visit_entry(key, toml) ==
    IF ~toml.ok THEN DeErr
    ELSE LET val == toml.value[1]
         IN CASE val.variant = "Latest" ->
                    IF key \in DOMAIN BUILTINS THEN DeOk(BuiltIn(key, Latest))
                    ELSE DeErr
              [] val.variant = "Version" ->
                    IF key \notin DOMAIN BUILTINS THEN DeErr
                    ELSE IF ~has_version(key, Specific(val.v)) THEN DeErr
                    ELSE DeOk(BuiltIn(key, Specific(val.v)))
              [] OTHER ->
                    DeOk(Custom(key, unwrap_or_else(val.name, key), val.build,
                                val.run, val.source_file))

\* The LanguageSet of the entries that were visited, or the error of one.
LanguageSet(entries) ==
    IF \E e \in entries : ~e.ok THEN DeErr
    ELSE DeOk([inner |-> {e.value[1] : e \in entries}])

\* LanguageMapVisitor::visit_map: the set of the languages of the entries,
\* or the error of the first entry that has one.
visit_map(doc, path, disk) ==
    IF path \notin doc.tables THEN DeErr
    ELSE LanguageSet({visit_entry(k, TomlLanguage(doc, path, k)) :
                         k \in keys(doc, path)})

default_port == "8517"

\* What the deserializer of T gives for a RawOrImport<T, Deser> that is
\* read from `from`.
Setup_from(from, disk) ==
    IF from.ok THEN Setup_deserialize(from.doc, from.path, disk) ELSE DeErr

LanguageSet_from(from, disk) ==
    IF from.ok THEN visit_map(from.doc, from.path, disk) ELSE DeErr

Accounts_from(from, disk) ==
    IF from.ok THEN Accounts_deserialize(from.doc, from.path, disk) ELSE DeErr

Packet_from(from, disk) ==
    IF from.ok THEN Packet_deserialize(from.doc, from.path, disk) ELSE DeErr

\* The Config of a document with the keys `has` and the port `port`, whose
\* fields are deserialized as given, the test runner left out.
Config(has, port, setup, languages, accounts, packet) ==
    IF \/ ~(has \subseteq {"setup", "port", "languages", "accounts", "packet"})
       \/ ~({"languages", "accounts", "packet"} \subseteq has)
       \/ "setup" \in has /\ ~setup.ok
       \/ "port" \in has /\ port = <<>>
       \/ ~languages.ok
       \/ ~accounts.ok
       \/ ~packet.ok
    THEN DeErr
    ELSE DeOk([hash |-> ZERO,
               setup |-> IF "setup" \in has THEN setup.value ELSE <<>>,
               port |-> IF "port" \in has THEN port[1] ELSE default_port,
               languages |-> languages.value[1],
               accounts |-> accounts.value[1],
               packet |-> packet.value[1]])

\* Deserialize for Config
Config_deserialize(doc, disk) ==
    Config(keys(doc, <<>>),
           IF is_value(doc, <<>>, "port") THEN <<value(doc, <<>>, "port")>>
           ELSE <<>>,
           Setup_from(RawOrImport_Deser(doc, <<"setup">>, disk), disk),
           LanguageSet_from(RawOrImport_Deser(doc, <<"languages">>, disk), disk),
           Accounts_from(RawOrImport_Deser(doc, <<"accounts">>, disk), disk),
           Packet_from(RawOrImport_Deser(doc, <<"packet">>, disk), disk))

\* The lines that a text given to from_str is made of.
Lines ==
    <<"", "   ", "# comment", "port = 80", "port  =  80", "port = ",
      "[setup]", "install = 'apt'", "install = { import = 'install.sh' }",
      "setup = { import = 'setup.toml' }", "[languages]",
      "python3 = 'latest'", "python3 = '*'", "python3 = '3'", "java = '21'",
      "java = '8'", "java = '23'", "cobol = 'latest'",
      "ocaml = { run = 'ocaml s.ml', source_file = 's.ml' }",
      "ocaml = { name = 'OCaml', run = 'ocaml s.ml', source_file = 's.ml' }",
      "languages = { import = 'languages.toml' }", "[accounts]",
      "admins = []", "competitors = []", "[packet]", "title = 'T'",
      "problems = []">>

RECURSIVE xxh3_64_from(_, _, _)
\* xxh3::xxh3_64(content.as_bytes()) is of a library: what is kept of it is
\* that it is a function of the bytes of the text and of nothing else, here
\* a sum over the lines of the text, taken in their order, that wraps at
\* 2^64.
xxh3_64_from(text, i, h) ==
    IF i > Len(text) THEN h
    ELSE xxh3_64_from(text, i + 1,
                      mul_add(h, 257,
                              CHOOSE k \in 1..Len(Lines) : Lines[k] = text[i],
                              Len(h)))

xxh3_64(text) == xxh3_64_from(text, 1, ZERO)

\* config.hash = hash, of the config that was deserialized, if one was.
with_hash(de, h) ==
    IF ~de.ok THEN DeErr ELSE DeOk([de.value[1] EXCEPT !.hash = h])

\* toml_edit::de::from_str of a Config, from the document on.
Config_of_document(doc, disk) ==
    IF doc.ok THEN Config_deserialize(doc, disk) ELSE DeErr

\* Config::from_str, which reads the files of disk that the text imports.
Config_from_str(text, disk) ==
    with_hash(Config_of_document(toml_from_str(text), disk), xxh3_64(text))

AccountsTable == <<"[accounts]", "admins = []", "competitors = []">>

PacketTable == <<"[packet]", "title = 'T'", "problems = []">>

\* What a text says before its first table.
Roots ==
    {<<>>, <<"port = 80">>, <<"port  =  80">>,
     <<"setup = { import = 'setup.toml' }">>,
     <<"languages = { import = 'languages.toml' }">>, <<"port = ">>}

SetupTables ==
    {<<>>, <<"[setup]", "install = 'apt'">>,
     <<"[setup]", "install = { import = 'install.sh' }">>}

\* The text of a root and of the tables in one of two orders, with or without
\* a comment at its top and a blank line before its tables.
ConfigText(root, setup, order, top) ==
    LET languages ==
            IF root = <<"languages = { import = 'languages.toml' }">>
            THEN <<>> ELSE <<"[languages]", "python3 = 'latest'">>
    IN top \o root
           \o (IF top = <<>> THEN <<>> ELSE <<"">>)
           \o (IF order = 1
               THEN setup \o languages \o AccountsTable \o PacketTable
               ELSE PacketTable \o AccountsTable \o languages \o setup)

\* The files of the directory in which from_str runs.
Disks ==
    {[f \in {"setup.toml", "install.sh", "languages.toml"} |->
         CASE f = "setup.toml" -> <<"install = { import = 'install.sh' }">>
           [] f = "install.sh" -> <<"apt install x">>
           [] OTHER -> <<"python3 = '*'", "java = '21'">>],
     [f \in {"setup.toml", "languages.toml"} |->
         CASE f = "setup.toml" -> <<"install = 'apt'">>
           [] OTHER -> <<"java = '23'">>],
     [f \in {"setup.toml", "install.sh"} |->
         CASE f = "setup.toml" -> <<"port = ">>
           [] OTHER -> <<"install = 'apt'">>]}

\* from_str(a) and from_str(b), then a.hash() and b.hash(), as
\* tests/hashing.rs calls them.
InitConfig ==
    /\ NoRender
    /\ pdf = NoPdf
    /\ config \in
          {Given(<<ConfigText(r, s, 1, <<>>), ConfigText(q, s, o, t)>>, d) :
              r \in Roots, q \in Roots, s \in SetupTables, o \in {1, 2},
              t \in {<<>>, <<"# comment">>}, d \in Disks}

\* One call of Config::from_str, on the next text.
from_str ==
    /\ config.at = "idle"
    /\ Len(config.results) < Len(config.texts)
    /\ LET r == Config_from_str(config.texts[Len(config.results) + 1],
                                config.disk)
       IN config' = [config EXCEPT !.results = Append(@, r),
                                   !.configs = @ \o r.value]
    /\ UNCHANGED <<ast, call, events, pc, pos, errors, current_code, emitted,
                   evaluated, result, world, span_worlds, clock, history,
                   FONTS, threads, pdf>>

NextConfig == from_str \/ hash \/ hash_loop

SpecConfig == InitConfig /\ [][NextConfig]_vars

\* ---------------------------------------------------------------------------
\* LanguageSet::get_by_str (language_set.rs) and the commands of a Language
\* (language/mod.rs), called on the languages of a Config that was read.
\* ---------------------------------------------------------------------------

\* The lines of a table of languages: for each of four names none or one.
LanguageLines ==
    {p \o j \o c \o o :
        p \in {<<>>, <<"python3 = 'latest'">>, <<"python3 = '*'">>,
               <<"python3 = '3'">>},
        j \in {<<>>, <<"java = '21'">>, <<"java = '8'">>, <<"java = '23'">>},
        c \in {<<>>, <<"cobol = 'latest'">>},
        o \in {<<>>,
               <<"ocaml = { run = 'ocaml s.ml', source_file = 's.ml' }">>,
               <<"ocaml = { name = 'OCaml', run = 'ocaml s.ml', source_file = 's.ml' }">>}}

LanguageTexts ==
    {<<"[languages]">> \o l \o AccountsTable \o PacketTable :
        l \in LanguageLines}
        \cup {<<"languages = { import = 'languages.toml' }">>
                  \o AccountsTable \o PacketTable}

\* The names that are looked up.
RawNames == {"python3", "java", "rust", "cobol", "ocaml", "OCaml"}

InitLanguages ==
    /\ NoRender
    /\ pdf = NoPdf
    /\ config \in {Given(<<t>>, d) : t \in LanguageTexts, d \in Disks}

\* A call of a method of the languages of the config that was read, the
\* only one that is looked at.
MayCall ==
    /\ config.at = "idle"
    /\ Len(config.results) = Len(config.texts)
    /\ config.configs # <<>>
    /\ config.called = <<>>

Called(method, arg, panicked, returned) ==
    /\ config' = [config EXCEPT !.called =
                      <<[method |-> method, arg |-> arg, panicked |-> panicked,
                         returned |-> returned]>>]
    /\ UNCHANGED <<ast, call, events, pc, pos, errors, current_code, emitted,
                   evaluated, result, world, span_worlds, clock, history,
                   FONTS, threads, pdf>>

\* self.inner.iter().find(|l| l.raw_name() == raw_name): the first of the
\* set, in an order that is not modelled, that has the name.
find_raw_name(inner, name) ==
    IF \E l \in inner : raw_name(l) = name
    THEN {<<l>> : l \in {m \in inner : raw_name(m) = name}}
    ELSE {<<>>}

\* LanguageSet::get_by_str
get_by_str ==
    /\ MayCall
    /\ \E name \in RawNames :
          \E found \in find_raw_name(config.configs[1].languages.inner, name) :
              Called("get_by_str", <<name>>, FALSE, found)

\* bil.versions.values().last()
last(versions) == IF versions = <<>> THEN <<>> ELSE <<versions[Len(versions)]>>

\* bil.versions[v], which panics when v is no key.
index(versions, v) ==
    IF contains_key(versions, v)
    THEN <<versions[CHOOSE i \in 1..Len(versions) : versions[i].key = v]>>
    ELSE <<>>

\* The LanguageVersion that a command of a built-in language reads, none
\* when the index panics.
version_of(l) ==
    IF l.version = Latest THEN last(BUILTINS[l.language])
    ELSE index(BUILTINS[l.language], l.version[1])

\* Language::build_command
build_command ==
    /\ MayCall
    /\ \E l \in config.configs[1].languages.inner :
          IF l.kind = "Custom" THEN Called("build_command", l, FALSE, l.build)
          ELSE IF version_of(l) = <<>>
               THEN Called("build_command", l, l.version # Latest, <<>>)
          ELSE Called("build_command", l, FALSE, version_of(l)[1].build)

\* Language::run_command
run_command ==
    /\ MayCall
    /\ \E l \in config.configs[1].languages.inner :
          IF l.kind = "Custom" THEN Called("run_command", l, FALSE, <<l.run>>)
          ELSE IF version_of(l) = <<>>
               THEN Called("run_command", l, TRUE, <<>>)
          ELSE Called("run_command", l, FALSE, <<version_of(l)[1].run>>)

\* Language::install_command
install_command ==
    /\ MayCall
    /\ \E l \in config.configs[1].languages.inner :
          IF l.kind = "Custom" THEN Called("install_command", l, FALSE, <<>>)
          ELSE IF version_of(l) = <<>>
               THEN Called("install_command", l, TRUE, <<>>)
          ELSE Called("install_command", l, FALSE,
                      version_of(l)[1].install_command)

\* Language::init_command
init_command ==
    /\ MayCall
    /\ \E l \in config.configs[1].languages.inner :
          IF l.kind = "Custom" THEN Called("init_command", l, FALSE, <<>>)
          ELSE IF version_of(l) = <<>>
               THEN Called("init_command", l, TRUE, <<>>)
          ELSE Called("init_command", l, FALSE, version_of(l)[1].init_command)

NextLanguages ==
    \/ from_str
    \/ get_by_str
    \/ build_command
    \/ run_command
    \/ install_command
    \/ init_command

SpecLanguages == InitLanguages /\ [][NextLanguages]_vars

\* ---------------------------------------------------------------------------
\* Config::render_pdf (lib.rs), Problem::as_value (packet.rs).  A markdown
\* text of a packet is the tree that it is parsed into.
\* ---------------------------------------------------------------------------

\* The most problems of a packet.
MaxProblems == 2

\* The descriptions of problems and the preambles: none, or a text that is
\* rendered, with and without math, one with math that does not evaluate,
\* one with raw HTML, one with an image.
Markdowns ==
    {<<>>,
     <<<<Paragraph(<<T>>)>>>>,
     <<<<Paragraph(<<M(MathOk)>>)>>>>,
     <<<<Paragraph(<<T, M(MathBad1)>>)>>>>,
     <<<<Paragraph(<<Leaf("InlineHtml", <<"<b>">>)>>)>>>>,
     <<<<Paragraph(<<Image(<<"i.png">>, <<T>>)>>)>>>>}

Problems ==
    {[title |-> t, description |-> d] : t \in {"A", "B"}, d \in Markdowns}

Packets ==
    {[title |-> "T", preamble |-> pre, problems |-> ps] :
        pre \in Markdowns,
        ps \in UNION {[1..n -> Problems] : n \in 0..MaxProblems}}

\* A call of render_pdf on a config with the packet, with a template that
\* typst compiles or does not, and a document that typst_pdf exports or not.
InitPdf ==
    /\ NoRender
    /\ config = NoConfig
    /\ pdf \in {[at |-> "called", packet |-> k, compiles |-> c, exports |-> e,
                 errs |-> <<>>, problems |-> <<>>, defined |-> {},
                 result |-> NoResult] :
                    k \in Packets, c \in BOOLEAN, e \in BOOLEAN}

\* MarkdownRenderable::content
MarkdownRenderable_content(markdown) == render_markdown(markdown)

\* dict.insert("description", Value::Content(desc.content(world)?))
described(p, desc) ==
    IF desc.status = "Ok"
    THEN Ok([title |-> p.title, description |-> <<desc.val>>])
    ELSE desc

\* Problem::as_value: the dictionary of the problem, with its description
\* if it has one.
as_value(p) ==
    IF p.description = <<>> THEN Ok([title |-> p.title, description |-> <<>>])
    ELSE described(p, MarkdownRenderable_content(p.description[1]))

\* The arms of the match of the loop of render_pdf: problems.push(v),
\* errs.push(err), and the panic of as_value, which ends the call.
pushed(acc, v) ==
    CASE v.status = "Ok" -> [acc EXCEPT !.problems = Append(@, v.val)]
      [] v.status = "Err" -> [acc EXCEPT !.errs = Append(@, v)]
      [] OTHER -> [acc EXCEPT !.panic = <<v>>]

RECURSIVE for_problems(_, _, _)
\* The loop of render_pdf over the problems from place i on, with what has
\* been pushed so far.
for_problems(ps, i, acc) ==
    IF i > Len(ps) \/ acc.panic # <<>> THEN acc
    ELSE for_problems(ps, i + 1, pushed(acc, as_value(ps[i])))

\* self.packet.preamble.as_deref().map(|s| s.content(&world)).transpose()
preamble_content(preamble) ==
    IF preamble = <<>> THEN Ok(<<>>)
    ELSE MarkdownRenderable_content(preamble[1])

\* What render_pdf returns and what it has defined for the template by
\* then, after the loop and the rendering of the preamble.
returned_pdf(after, preamble, compiles, exports) ==
    CASE after.panic # <<>> -> [result |-> after.panic[1], defined |-> {}]
      [] preamble.status = "Panic" ->
            [result |-> preamble, defined |-> {"problems", "title"}]
      [] preamble.status = "Err" ->
            [result |-> Err("io::Error", preamble.diags),
             defined |-> {"problems", "title"}]
      [] ~compiles ->
            [result |-> Panic("Error compiling typst"),
             defined |-> {"problems", "title", "preamble"}]
      [] ~exports ->
            [result |-> Err("io::Error", <<>>),
             defined |-> {"problems", "title", "preamble"}]
      [] OTHER ->
            [result |-> Ok(<<"pdf">>),
             defined |-> {"problems", "title", "preamble"}]

\* The call of render_pdf, ended.
ended_pdf(call_, after, returned) ==
    [call_ EXCEPT !.at = "returned",
                  !.errs = after.errs,
                  !.problems = after.problems,
                  !.defined = returned.defined,
                  !.result = returned.result]

\* render_pdf from the end of its loop on.
after_problems(call_, after) ==
    ended_pdf(call_, after,
              returned_pdf(after, preamble_content(call_.packet.preamble),
                           call_.compiles, call_.exports))

\* Config::render_pdf
render_pdf ==
    /\ pdf.at = "called"
    /\ pdf' = after_problems(pdf, for_problems(pdf.packet.problems, 1,
                                               [problems |-> <<>>,
                                                errs |-> <<>>,
                                                panic |-> <<>>]))
    /\ UNCHANGED <<ast, call, events, pc, pos, errors, current_code, emitted,
                   evaluated, result, world, span_worlds, clock, history,
                   FONTS, threads, config>>

NextPdf == render_pdf

SpecPdf == InitPdf /\ [][NextPdf]_vars

\* ---------------------------------------------------------------------------
\* C29
\* ---------------------------------------------------------------------------

\* The place of character c in a-z0-9, from 0.
DigitOf(c) == (CHOOSE k \in 1..36 : ALPHABET[k] = c) - 1

RECURSIVE ValueFrom(_, _)
\* The number that the characters of s from place i on write in base 36 with
\* the least significant digit first, as five limbs.
ValueFrom(s, i) ==
    IF i > Len(s) THEN <<0, 0, 0, 0, 0>>
    ELSE mul_add(ValueFrom(s, i + 1), 36, DigitOf(s[i]), 5)

\* s is the base-36 representation of h, least significant digit first: it
\* writes h, and its most significant digit is not zero unless it is alone.
IsBase36Of(s, h) ==
    /\ \A i \in 1..Len(s) : \E k \in 1..36 : ALPHABET[k] = s[i]
    /\ ValueFrom(s, 1) = <<0>> \o h
    /\ Len(s) > 1 => s[Len(s)] # "a"

HashStringsAreBase36 ==
    config.at # "none" =>
        /\ \A i \in 1..Len(config.returned) :
              /\ Len(config.returned[i]) \in 1..13
              /\ IsBase36Of(config.returned[i], config.configs[i].hash)
        /\ Len(config.returned) = 2 =>
              (config.returned[1] = config.returned[2]
                  <=> config.configs[1].hash = config.configs[2].hash)

BothHashesReturned == config.at = "idle" /\ Len(config.returned) = 2

\* C29: every call of Config::hash returns, and what it returns is a string
\* of one to thirteen characters of a-z0-9 that is the base-36 representation
\* of the stored hash with the least significant digit first; the strings of
\* two configs are equal if and only if their stored hashes are equal.
C29_HashIsBase36LeastDigitFirst ==
    [](HashStringsAreBase36) /\ <>(BothHashesReturned)

\* Both calls returned, one string has thirteen characters, the strings
\* differ.
C29_Witness ==
    /\ BothHashesReturned
    /\ config.configs[1].hash = MAX
    /\ Len(config.returned[1]) = 13
    /\ config.returned[1] # config.returned[2]

\* ---------------------------------------------------------------------------
\* C21
\* ---------------------------------------------------------------------------

\* Both texts have been read into a Config and both hash strings are there.
BothRead ==
    /\ "results" \in DOMAIN config
    /\ Len(config.results) = 2
    /\ config.results[1].ok
    /\ config.results[2].ok

\* The texts say the same document: they differ in blank lines, comments,
\* the blanks inside a line and the order of their tables only.
DifferInFormattingOnly ==
    /\ toml_from_str(config.texts[1]).ok
    /\ toml_from_str(config.texts[1]) = toml_from_str(config.texts[2])

\* The two configs are the same in every field that is read from the text.
SameConfiguration ==
    [config.configs[1] EXCEPT !.hash = ZERO]
        = [config.configs[2] EXCEPT !.hash = ZERO]

\* C21: two texts that are read into the same configuration and differ in
\* formatting only (whitespace, comments, blank lines, the order of the
\* tables) have equal hash strings.
C21_FormattingDoesNotChangeTheHash ==
    (BothRead /\ Len(config.returned) = 2 /\ DifferInFormattingOnly
        /\ SameConfiguration)
            => config.returned[1] = config.returned[2]

\* ---------------------------------------------------------------------------
\* C22
\* ---------------------------------------------------------------------------

\* The document of the file that table `field` of doc imports, read
\* directly: none when the file is not there or is not TOML.
Directly(doc, disk, field) ==
    LET file == value(doc, <<field>>, "import")
    IN IF file \in DOMAIN disk THEN toml_from_str(disk[file]) ELSE NoDocument

\* Field `field` of the config that `r` is the result of reading doc into
\* is as its table says: the value `direct` of the file when the table is an
\* import, an error of the whole call when the file gives none, and the
\* value `inplace` of the table itself when it is no import.
FieldIsAsWritten(doc, field, r, got, direct, inplace) ==
    IF is_import(doc, <<field>>)
    THEN IF direct.ok THEN r.ok => got = direct.value[1] ELSE ~r.ok
    ELSE (r.ok /\ field \in keys(doc, <<>>)) => got = inplace.value[1]

\* The install of the setup that is table path of doc is as it is written:
\* the text of the file, whole, when it is an import, an error of the whole
\* call when the file cannot be read, the string itself otherwise.
InstallIsAsWritten(doc, path, disk, r) ==
    IF is_import(doc, path \o <<"install">>)
    THEN LET file == value(doc, path \o <<"install">>, "import")
         IN IF file \in DOMAIN disk
            THEN r.ok => r.value[1].setup[1].install = <<disk[file]>>
            ELSE ~r.ok
    ELSE (r.ok /\ is_value(doc, path, "install"))
             => r.value[1].setup[1].install = <<<<value(doc, path, "install")>>>>

\* The document and the table that the setup of doc is read from.
SetupSource(doc, disk) ==
    IF is_import(doc, <<"setup">>)
    THEN LET file == value(doc, <<"setup">>, "import")
         IN IF file \in DOMAIN disk
            THEN [doc |-> toml_from_str(disk[file]), path |-> <<>>]
            ELSE [doc |-> NoDocument, path |-> <<>>]
    ELSE [doc |-> doc, path |-> <<"setup">>]

ImportsAreAsWritten(text, disk, r) ==
    LET doc == toml_from_str(text)
        from == SetupSource(doc, disk)
    IN doc.ok =>
          /\ FieldIsAsWritten(doc, "setup", r,
                              IF r.ok /\ r.value[1].setup # <<>>
                              THEN r.value[1].setup[1] ELSE <<>>,
                              IF Directly(doc, disk, "setup").ok
                              THEN Setup_deserialize(
                                       Directly(doc, disk, "setup"), <<>>, disk)
                              ELSE DeErr,
                              Setup_deserialize(doc, <<"setup">>, disk))
          /\ FieldIsAsWritten(doc, "languages", r,
                              IF r.ok THEN r.value[1].languages ELSE <<>>,
                              IF Directly(doc, disk, "languages").ok
                              THEN visit_map(Directly(doc, disk, "languages"),
                                             <<>>, disk)
                              ELSE DeErr,
                              visit_map(doc, <<"languages">>, disk))
          /\ (from.doc.ok /\ from.path \in from.doc.tables)
                => InstallIsAsWritten(from.doc, from.path, disk, r)

\* C22: a field written as an import table has the value that deserializing
\* the file directly gives, a field not written so has the value of what is
\* written in place, and a file that cannot be read or is malformed makes
\* from_str return an error.
C22_ImportIsTheFileDeserialized ==
    "results" \in DOMAIN config =>
        \A i \in 1..Len(config.results) :
            ImportsAreAsWritten(config.texts[i], config.disk, config.results[i])

\* The first text imports its setup, which is read; the second imports its
\* languages from a file that does not deserialize, and is an error.
C22_Witness ==
    /\ "results" \in DOMAIN config
    /\ Len(config.results) = 2
    /\ is_import(toml_from_str(config.texts[1]), <<"setup">>)
    /\ config.results[1].ok
    /\ config.results[1].value[1].setup # <<>>
    /\ is_import(toml_from_str(config.texts[2]), <<"languages">>)
    /\ ~config.results[2].ok
    /\ toml_from_str(config.texts[2]).ok

\* An install that is imported from a file has been read.
C22_RawWitness ==
    /\ "results" \in DOMAIN config
    /\ \E i \in 1..Len(config.results) :
          /\ config.results[i].ok
          /\ config.results[i].value[1].setup # <<>>
          /\ config.results[i].value[1].setup[1].install = <<<<"apt install x">>>>

\* ---------------------------------------------------------------------------
\* C23
\* ---------------------------------------------------------------------------

\* The document and the table that the languages of doc are read from.
LanguagesSource(doc, disk) ==
    IF is_import(doc, <<"languages">>)
    THEN [doc |-> toml_from_str(disk[value(doc, <<"languages">>, "import")]),
          path |-> <<>>]
    ELSE [doc |-> doc, path |-> <<"languages">>]

\* What is declared under key k of the table: the language that the claim
\* names for it.
Declared(doc, path, k) ==
    LET t == path \o <<k>>
    IN IF is_value(doc, path, k)
       THEN IF value(doc, path, k) \in {"latest", "*"}
            THEN BuiltIn(k, Latest)
            ELSE BuiltIn(k, Specific(value(doc, path, k)))
       ELSE Custom(k,
                   IF is_value(doc, t, "name") THEN value(doc, t, "name") ELSE k,
                   IF is_value(doc, t, "build")
                   THEN <<value(doc, t, "build")>> ELSE <<>>,
                   value(doc, t, "run"), value(doc, t, "source_file"))

\* get_by_str has been called on the languages of a config that was read.
LookedUp ==
    /\ "called" \in DOMAIN config
    /\ config.called # <<>>
    /\ config.called[1].method = "get_by_str"

C23_NoneWitness ==
    /\ LookedUp
    /\ config.called[1].returned = <<>>
    /\ config.configs[1].languages.inner # {}

\* ---------------------------------------------------------------------------
\* C28
\* ---------------------------------------------------------------------------

\* The version of built-in language l is Latest or one that is listed.
HasListedVersion(l) ==
    /\ l.language \in DOMAIN BUILTINS
    /\ \/ l.version = Latest
       \/ \E i \in 1..Len(BUILTINS[l.language]) :
             BUILTINS[l.language][i].key = l.version[1]

\* The table of languages declares a name that is no built-in language, or a
\* version of one that is not listed.
DeclaresUnknown(doc, path) ==
    \E k \in keys(doc, path) :
        /\ is_value(doc, path, k)
        /\ \/ k \notin DOMAIN BUILTINS
           \/ /\ value(doc, path, k) \notin {"latest", "*"}
              /\ ~contains_key(BUILTINS[k], value(doc, path, k))

C28_RefusedWitness ==
    /\ "results" \in DOMAIN config
    /\ config.results # <<>>
    /\ ~config.results[1].ok
    /\ toml_from_str(config.texts[1]).ok
    /\ DeclaresUnknown(toml_from_str(config.texts[1]), <<"languages">>)

\* ---------------------------------------------------------------------------
\* C27
\* ---------------------------------------------------------------------------

\* The rendering of markdown m, none or one, fails: it does not give content.
RenderFails(m) == m # <<>> /\ render_markdown(m[1]).status # "Ok"

\* The problems of ps whose description, if any, is rendered, in their order.
Converted(ps) == SelectSeq(ps, LAMBDA p : ~RenderFails(p.description))

\* render_pdf has returned or has crashed, with a template that compiles and
\* a document that is exported.
PdfEnded == pdf.at = "returned" /\ pdf.compiles /\ pdf.exports

\* The array of problems holds the converted problems in the order of the
\* packet, the errors of the others are kept and not returned, and the call
\* is an error exactly when the preamble fails.
ProblemsFailOnTheirOwn ==
    /\ pdf.result.status # "Panic"
    /\ Len(pdf.problems) = Len(Converted(pdf.packet.problems))
    /\ \A i \in 1..Len(pdf.problems) :
          pdf.problems[i].title = Converted(pdf.packet.problems)[i].title
    /\ Len(pdf.errs) = Len(pdf.packet.problems) - Len(pdf.problems)
    /\ pdf.result.status = "Err" <=> RenderFails(pdf.packet.preamble)
    /\ pdf.result.status = "Ok" => "problems" \in pdf.defined

\* C27: render_pdf does not fail when the description of a problem fails to
\* render: the array of problems holds exactly the problems that were
\* converted, in the order of the packet, the errors of the others are
\* collected and not returned, and a preamble that fails makes the call
\* return Err.
C27_FailedProblemsAreLeftOut == PdfEnded => ProblemsFailOnTheirOwn

HasImage_(m) ==
    m # <<>> /\ render_markdown(m[1]).status = "Panic"

\* No text of the packet has an image.
PacketWithoutImage ==
    /\ ~HasImage_(pdf.packet.preamble)
    /\ \A i \in 1..Len(pdf.packet.problems) :
          ~HasImage_(pdf.packet.problems[i].description)

\* What holds of C27 in the code: the packets without an image.
C27_FailedProblemsAreLeftOutWithoutImage ==
    (PdfEnded /\ PacketWithoutImage) => ProblemsFailOnTheirOwn

\* A packet of a problem that fails and one that does not has been rendered.
C27_OneLeftOut ==
    /\ PdfEnded
    /\ pdf.result.status = "Ok"
    /\ Len(pdf.packet.problems) = 2
    /\ Len(pdf.problems) = 1
    /\ Len(pdf.errs) = 1

====
